---- MODULE Spec2Model ----
(***************************************************************************)
(* A model of leaf utilities of the langfuse web package:                  *)
(*   - observationsRouter.byId: the observation lookup with its fallback   *)
(*     from the events table to the legacy table;                          *)
(*   - exportExperimentToCsv: the CSV export of dataset run items;         *)
(*   - RemoteExperimentUpsertForm: the URL composers and parser of the     *)
(*     remote experiment form, its entry modes and its submit handlers.    *)
(* Text is modelled as a sequence of one-character strings, so that        *)
(* escaping, quoting and sorting are computed and not assumed.             *)
(***************************************************************************)
EXTENDS Integers, Sequences, FiniteSets, TLC

VARIABLES
    flag,       \* env.LANGFUSE_ENABLE_EVENTS_TABLE_OBSERVATIONS
    pc,         \* where the byId query handler stands
    input,      \* the validated input of the current invocation
    queryOpts,  \* the queryOpts object built by the handler
    calls,      \* the backend lookups issued by the current invocation, in order
    result,     \* what the invocation gave its caller
    runItems,   \* the run items handed to exportExperimentToCsv
    runName,    \* the runName handed to exportExperimentToCsv
    csvPc,      \* "collecting" until the export is called, then "exported"
    csv,        \* what exportExperimentToCsv gave its caller
    urlArgs,    \* the host, port and path handed to the URL composers
    urlOut,     \* what buildUrl, buildUrlFromEnv and parseExistingUrl gave
    formVariant,       \* which version of RemoteExperimentUpsertForm is mounted
    mode,              \* useSplitFields ("split" or "single"), or mode
    endpointsQuery,    \* endpointsQuery.data
    envConfigQuery,    \* envConfigQuery.data
    formSplit,         \* the values of formSplit
    formEndpointOnly,  \* the values of formEndpointOnly
    formSingle,        \* the values of formSingle
    fieldErrors,       \* the inline errors of each form
    upsert,            \* upsertRemoteExperimentMutation
    toasts,            \* the toasts shown
    edits              \* how many fields the user has changed so far

byIdVars == <<flag, pc, input, queryOpts, calls, result>>

csvVars == <<runItems, runName, csvPc, csv>>

urlVars == <<urlArgs, urlOut>>

formVars ==
    <<formVariant, mode, endpointsQuery, envConfigQuery, formSplit,
      formEndpointOnly, formSingle, fieldErrors, upsert, toasts, edits>>

vars == <<byIdVars, csvVars, urlVars, formVars>>

(***************************************************************************)
(* JavaScript values the handler distinguishes.                            *)
(***************************************************************************)
\* Every value is a record tagged with its JavaScript type.
Null == [t |-> "null"]
Undefined == [t |-> "undefined"]
Str(s) == [t |-> "string", s |-> s]
Date(iso) == [t |-> "date", iso |-> iso]

\* !v for the values a lookup can resolve to: null and undefined are falsy,
\* a record is truthy.
Falsy(v) == v = Null \/ v = Undefined

(***************************************************************************)
(* observationsRouter.byId                                                 *)
(***************************************************************************)
\* The values of the environment variable; "unset" stands for its absence.
FlagValues == {"true", "false", "unset"}

ObservationIds == {"obs1", "obs2"}
TraceIds == {"trace1"}
ProjectIds == {"proj1", "proj2"}
StartTimes == {Null, Undefined, Date("2024-01-01T00:00:00Z")}
Verbosities == {"compact", "truncated", "full"}

\* The zod input object of byId.
Inputs ==
    [observationId : ObservationIds,
     traceId : TraceIds,
     projectId : ProjectIds,
     startTime : StartTimes,
     verbosity : Verbosities]

NoInput == [t |-> "no input"]
NoOpts == [t |-> "no queryOpts"]
NoResult == [status |-> "none"]

\* input.startTime ?? undefined
NullishToUndefined(v) == IF v = Null \/ v = Undefined THEN Undefined ELSE v

MakeQueryOpts(in) ==
    [id |-> in.observationId,
     projectId |-> in.projectId,
     fetchWithInputOutput |-> TRUE,
     traceId |-> in.traceId,
     startTime |-> NullishToUndefined(in.startTime),
     renderingProps |-> [truncated |-> (in.verbosity = "truncated"),
                         shouldJsonParse |-> FALSE]]

\* A mutant of EventsTableEnabled: the flag tested for truthiness, so that the
\* string "false" enables the events table.
EventsTableEnabledTruthy == flag # "unset"

\* env.LANGFUSE_ENABLE_EVENTS_TABLE_OBSERVATIONS === "true"
EventsTableEnabled == flag = "true"

\* The records a lookup can resolve to for a query, besides null and undefined.
InternalModelIds == {Str("model1"), Null}

RecordsFor(q) ==
    {[t |-> "object",
      id |-> q.id,
      projectId |-> q.projectId,
      traceId |-> q.traceId,
      input |-> Str("stored input"),
      output |-> Str("stored output"),
      internalModelId |-> m] : m \in InternalModelIds}

LookupValues(q) ==
    IF q = NoOpts THEN {} ELSE RecordsFor(q) \cup {Null, Undefined}

\* The errors a lookup can reject with. raisedBy stands for the identity of the
\* error object: two errors of one class and message raised at different
\* places are different objects.
ErrorClasses == {"LangfuseNotFoundError", "Error"}

LookupErrors(backend) ==
    {[cls |-> c, message |-> <<"lookup failed">>, raisedBy |-> backend] :
        c \in ErrorClasses}

\* A mutant of IsNotFound: every error of the events-table lookup falls back.
IsNotFoundAnyError(error) == TRUE

\* error instanceof LangfuseNotFoundError
IsNotFound(error) == error.cls = "LangfuseNotFoundError"

\* A mutant of ObservationNotFoundError: the message names the observation and
\* the project.
ObservationNotFoundErrorNaming(in) ==
    [cls |-> "LangfuseNotFoundError",
     message |-> <<"Observation ", in.observationId,
                   " not found within authorized project ", in.projectId>>,
     raisedBy |-> "byId"]

\* new LangfuseNotFoundError("Observation not found within authorized project")
ObservationNotFoundError(in) ==
    [cls |-> "LangfuseNotFoundError",
     message |-> <<"Observation not found within authorized project">>,
     raisedBy |-> "byId"]

\* The object byId returns for a record. toDomainWithStringifiedMetadata and
\* parseIO are library functions: their applications are kept as terms.
Shape(obs, in) ==
    [domain |-> <<"toDomainWithStringifiedMetadata", obs>>,
     input |-> <<"parseIO", obs.input, in.verbosity>>,
     output |-> <<"parseIO", obs.output, in.verbosity>>,
     internalModel |-> obs.internalModelId]

\* A mutant of Respond: the record is shaped without the check for its absence.
RespondUnchecked(obs, in) ==
    [status |-> "ok",
     value |-> IF Falsy(obs) THEN obs ELSE Shape(obs, in)]

\* if (!obs) throw ...; return {...}
Respond(obs, in) ==
    IF Falsy(obs)
    THEN [status |-> "error", error |-> ObservationNotFoundError(in)]
    ELSE [status |-> "ok", value |-> Shape(obs, in)]

Pending == [kind |-> "pending"]
Returned(v) == [kind |-> "returned", value |-> v]
Threw(e) == [kind |-> "threw", error |-> e]

\* One lookup, as a spy on the backend would record it.
Call(backend, q) == [backend |-> backend, opts |-> q, outcome |-> Pending]

\* The last issued lookup settles with outcome o.
Settle(o) == [calls EXCEPT ![Len(calls)].outcome = o]

ByIdInit ==
    /\ flag \in FlagValues
    /\ pc = "idle"
    /\ input = NoInput
    /\ queryOpts = NoOpts
    /\ calls = <<>>
    /\ result = NoResult

\* The handler is entered: it builds queryOpts and runs up to its first await.
Query(in) ==
    /\ pc \in {"idle", "done"}
    /\ input' = in
    /\ queryOpts' = MakeQueryOpts(in)
    /\ result' = NoResult
    /\ IF EventsTableEnabled
       THEN /\ calls' = <<Call("primary", MakeQueryOpts(in))>>
            /\ pc' = "awaitPrimary"
       ELSE /\ calls' = <<Call("legacy", MakeQueryOpts(in))>>
            /\ pc' = "awaitLegacy"
    /\ UNCHANGED flag
    /\ UNCHANGED <<csvVars, urlVars, formVars>>

\* A mutant of PrimaryReturns: an empty result of the events table is answered
\* by asking the legacy table.
PrimaryReturnsFallingBack(v) ==
    /\ pc = "awaitPrimary"
    /\ IF Falsy(v)
       THEN /\ calls' = Append(Settle(Returned(v)), Call("legacy", queryOpts))
            /\ pc' = "awaitLegacy"
            /\ UNCHANGED result
       ELSE /\ calls' = Settle(Returned(v))
            /\ result' = Respond(v, input)
            /\ pc' = "done"
    /\ UNCHANGED <<flag, input, queryOpts>>
    /\ UNCHANGED <<csvVars, urlVars, formVars>>

\* await getObservationByIdFromEventsTable(queryOpts) resolves with v.
PrimaryReturns(v) ==
    /\ pc = "awaitPrimary"
    /\ calls' = Settle(Returned(v))
    /\ result' = Respond(v, input)
    /\ pc' = "done"
    /\ UNCHANGED <<flag, input, queryOpts>>
    /\ UNCHANGED <<csvVars, urlVars, formVars>>

\* A mutant of PrimaryThrows: a not-found is answered by asking the events
\* table again before falling back.
PrimaryThrowsRetrying(e) ==
    /\ pc = "awaitPrimary"
    /\ IF IsNotFound(e)
       THEN /\ calls' = Append(Settle(Threw(e)), Call("primary", queryOpts))
            /\ pc' = "awaitPrimary"
            /\ UNCHANGED result
       ELSE /\ calls' = Settle(Threw(e))
            /\ result' = [status |-> "error", error |-> e]
            /\ pc' = "done"
    /\ UNCHANGED <<flag, input, queryOpts>>
    /\ UNCHANGED <<csvVars, urlVars, formVars>>

\* await getObservationByIdFromEventsTable(queryOpts) rejects with e: the catch
\* block issues the legacy lookup on a not-found and rethrows anything else.
PrimaryThrows(e) ==
    /\ pc = "awaitPrimary"
    /\ IF IsNotFound(e)
       THEN /\ calls' = Append(Settle(Threw(e)), Call("legacy", queryOpts))
            /\ pc' = "awaitLegacy"
            /\ UNCHANGED result
       ELSE /\ calls' = Settle(Threw(e))
            /\ result' = [status |-> "error", error |-> e]
            /\ pc' = "done"
    /\ UNCHANGED <<flag, input, queryOpts>>
    /\ UNCHANGED <<csvVars, urlVars, formVars>>

\* await getObservationById(queryOpts) resolves with v.
LegacyReturns(v) ==
    /\ pc = "awaitLegacy"
    /\ calls' = Settle(Returned(v))
    /\ result' = Respond(v, input)
    /\ pc' = "done"
    /\ UNCHANGED <<flag, input, queryOpts>>
    /\ UNCHANGED <<csvVars, urlVars, formVars>>

\* A mutant of LegacyThrows: a failure of the legacy lookup is taken for an
\* absent record.
LegacyThrowsSwallowed(e) ==
    /\ pc = "awaitLegacy"
    /\ calls' = Settle(Threw(e))
    /\ result' = Respond(Undefined, input)
    /\ pc' = "done"
    /\ UNCHANGED <<flag, input, queryOpts>>
    /\ UNCHANGED <<csvVars, urlVars, formVars>>

\* await getObservationById(queryOpts) rejects with e: nothing catches it, in
\* the catch block or in the else branch.
LegacyThrows(e) ==
    /\ pc = "awaitLegacy"
    /\ calls' = Settle(Threw(e))
    /\ result' = [status |-> "error", error |-> e]
    /\ pc' = "done"
    /\ UNCHANGED <<flag, input, queryOpts>>
    /\ UNCHANGED <<csvVars, urlVars, formVars>>

ByIdNext ==
    \/ \E in \in Inputs : Query(in)
    \/ \E v \in LookupValues(queryOpts) : PrimaryReturns(v)
    \/ \E e \in LookupErrors("primary") : PrimaryThrows(e)
    \/ \E v \in LookupValues(queryOpts) : LegacyReturns(v)
    \/ \E e \in LookupErrors("legacy") : LegacyThrows(e)

(***************************************************************************)
(* Text: a JavaScript string as the sequence of its characters.            *)
(***************************************************************************)
Quote == "\""
Comma == ","
Newline == "\n"

\* The characters of the model in the order of their UTF-16 code units.
CodeUnitOrder ==
    <<"\t", "\n", "\r", " ", "\"", "(", ")", ",", "-", ".", "/",
      "0", "1", "2", "3", "4", "5", "6", "7", "8", "9", ":",
      "A", "B", "C", "D", "E", "F", "G", "H", "I", "J", "K", "L", "M",
      "N", "O", "P", "Q", "R", "S", "T", "U", "V", "W", "X", "Y", "Z",
      "[", "\\", "]", "_",
      "a", "b", "c", "d", "e", "f", "g", "h", "i", "j", "k", "l", "m",
      "n", "o", "p", "q", "r", "s", "t", "u", "v", "w", "x", "y", "z",
      "{", "}">>

\* The rank of a character's code unit among those of the model.
CodeUnit(c) == CHOOSE i \in DOMAIN CodeUnitOrder : CodeUnitOrder[i] = c

\* a < b for strings: the comparison of Array.prototype.sort without a
\* comparator, by code units, a proper prefix before its extensions.
RECURSIVE TextLess(_, _)
TextLess(a, b) ==
    IF b = <<>> THEN FALSE
    ELSE IF a = <<>> THEN TRUE
    ELSE IF Head(a) = Head(b) THEN TextLess(Tail(a), Tail(b))
    ELSE CodeUnit(Head(a)) < CodeUnit(Head(b))

\* stringValue.includes(c)
Includes(text, c) == \E i \in DOMAIN text : text[i] = c

\* text.replace(/"/g, '""')
RECURSIVE DoubleQuotes(_)
DoubleQuotes(text) ==
    IF text = <<>> THEN <<>>
    ELSE (IF Head(text) = Quote THEN <<Quote, Quote>> ELSE <<Head(text)>>)
            \o DoubleQuotes(Tail(text))

\* `"${text.replace(/"/g, '""')}"`
Quoted(text) == <<Quote>> \o DoubleQuotes(text) \o <<Quote>>

\* parts.join(sep)
RECURSIVE Join(_, _)
Join(parts, sep) ==
    IF parts = <<>> THEN <<>>
    ELSE IF Len(parts) = 1 THEN parts[1]
    ELSE parts[1] \o sep \o Join(Tail(parts), sep)

\* The elements of a sequence.
Range(seq) == {seq[i] : i \in DOMAIN seq}

(***************************************************************************)
(* Numbers. Num(k) is the number k/10: the numbers of the model have at    *)
(* most one decimal place.                                                 *)
(***************************************************************************)
Num(k) == [t |-> "number", tenths |-> k]

DigitChars == <<"0", "1", "2", "3", "4", "5", "6", "7", "8", "9">>

\* The decimal digits of a natural number.
RECURSIVE Digits(_)
Digits(n) ==
    IF n < 10 THEN <<DigitChars[n + 1]>>
    ELSE Digits(n \div 10) \o <<DigitChars[(n % 10) + 1]>>

\* String(x) for a number x.
NumberToString(x) ==
    LET k == x.tenths
        abs == IF k < 0 THEN 0 - k ELSE k
    IN  (IF k < 0 THEN <<"-">> ELSE <<>>)
            \o Digits(abs \div 10)
            \o (IF abs % 10 = 0 THEN <<>> ELSE <<".">> \o Digits(abs % 10))

(***************************************************************************)
(* exportExperimentToCsv: the helpers                                      *)
(***************************************************************************)
\* A mutant of escapeCsvValue: a line break alone does not call for quotes.
escapeCsvValueNewlineBlind(value) ==
    IF Includes(value, Comma) \/ Includes(value, Quote)
    THEN Quoted(value)
    ELSE value

\* escapeCsvValue, for the strings it is applied to (the headers and the values
\* of a row): String(value) is then the value itself.
escapeCsvValue(value) ==
    IF Includes(value, Comma) \/ Includes(value, Quote)
          \/ Includes(value, Newline)
    THEN Quoted(value)
    ELSE value

baseHeaders ==
    <<<<"D", "a", "t", "a", "s", "e", "t", " ", "I", "t", "e", "m", " ", "I", "D">>,
      <<"R", "u", "n", " ", "A", "t">>,
      <<"T", "r", "a", "c", "e", " ", "I", "D">>,
      <<"O", "b", "s", "e", "r", "v", "a", "t", "i", "o", "n", " ", "I", "D">>,
      <<"I", "n", "p", "u", "t">>,
      <<"E", "x", "p", "e", "c", "t", "e", "d", " ", "O", "u", "t", "p", "u", "t">>,
      <<"T", "r", "a", "c", "e", " ", "O", "u", "t", "p", "u", "t">>,
      <<"M", "e", "t", "a", "d", "a", "t", "a">>,
      <<"L", "a", "t", "e", "n", "c", "y", " ", "(", "s", ")">>,
      <<"T", "o", "t", "a", "l", " ", "C", "o", "s", "t">>,
      <<"E", "r", "r", "o", "r">>>>

jsonFields ==
    {<<"I", "n", "p", "u", "t">>,
     <<"E", "x", "p", "e", "c", "t", "e", "d", " ", "O", "u", "t", "p", "u", "t">>,
     <<"T", "r", "a", "c", "e", " ", "O", "u", "t", "p", "u", "t">>,
     <<"M", "e", "t", "a", "d", "a", "t", "a">>}

\* `Score: ${name}`
ScoreHeader(name) == <<"S", "c", "o", "r", "e", ":", " ">> \o name


(***************************************************************************)
(* JSON. A value is null, a boolean, a number, a string, an array          *)
(* Arr(<<v1, ...>>) or an object Obj(<<Prop(k1, v1), ...>>) with its       *)
(* properties in their order; Cyclic is an object that refers to itself.   *)
(***************************************************************************)
Bool(b) == [t |-> "boolean", b |-> b]
Arr(items) == [t |-> "array", items |-> items]
Prop(key, value) == [key |-> key, value |-> value]
Obj(props) == [t |-> "object", props |-> props]
Cyclic == [t |-> "cyclic"]

Backslash == "\\"

\* The text of a string inside a JSON string literal.
RECURSIVE JsonEscape(_)
JsonEscape(text) ==
    IF text = <<>> THEN <<>>
    ELSE (CASE Head(text) = Quote -> <<Backslash, Quote>>
            [] Head(text) = Backslash -> <<Backslash, Backslash>>
            [] Head(text) = Newline -> <<Backslash, "n">>
            [] Head(text) = "\t" -> <<Backslash, "t">>
            [] Head(text) = "\r" -> <<Backslash, "r">>
            [] OTHER -> <<Head(text)>>)
         \o JsonEscape(Tail(text))

\* JSON.stringify(v) without indentation, for a value it serializes.
RECURSIVE Serialize(_)
Serialize(v) ==
    CASE v.t = "null" -> <<"n", "u", "l", "l">>
      [] v.t = "boolean" -> IF v.b THEN <<"t", "r", "u", "e">> ELSE <<"f", "a", "l", "s", "e">>
      [] v.t = "number" -> NumberToString(v)
      [] v.t = "string" -> <<Quote>> \o JsonEscape(v.s) \o <<Quote>>
      [] v.t = "array" ->
            <<"[">> \o Join([i \in DOMAIN v.items |-> Serialize(v.items[i])],
                            <<Comma>>) \o <<"]">>
      [] v.t = "object" ->
            <<"{">> \o Join([i \in DOMAIN v.props |->
                                <<Quote>> \o JsonEscape(v.props[i].key)
                                    \o <<Quote, ":">>
                                    \o Serialize(v.props[i].value)],
                            <<Comma>>) \o <<"}">>

\* Whether JSON.stringify throws on v: it does on a cyclic structure.
RECURSIVE Unserializable(_)
Unserializable(v) ==
    CASE v.t = "cyclic" -> TRUE
      [] v.t = "array" -> \E i \in DOMAIN v.items : Unserializable(v.items[i])
      [] v.t = "object" ->
            \E i \in DOMAIN v.props : Unserializable(v.props[i].value)
      [] OTHER -> FALSE

\* String(v) for a value that is not a string.
RECURSIVE JsString(_)
JsString(v) ==
    CASE v.t = "null" -> <<"n", "u", "l", "l">>
      [] v.t = "undefined" -> <<"u", "n", "d", "e", "f", "i", "n", "e", "d">>
      [] v.t = "boolean" -> IF v.b THEN <<"t", "r", "u", "e">> ELSE <<"f", "a", "l", "s", "e">>
      [] v.t = "number" -> NumberToString(v)
      [] v.t = "string" -> v.s
      [] v.t = "array" ->
            Join([i \in DOMAIN v.items |->
                    IF v.items[i].t \in {"null", "undefined"} THEN <<>>
                    ELSE JsString(v.items[i])], <<Comma>>)
      [] OTHER -> <<"[", "o", "b", "j", "e", "c", "t", " ", "O", "b", "j", "e", "c", "t", "]">>

(***************************************************************************)
(* JSON.parse, by recursive descent. A parse of text from position i gives *)
(* [ok |-> TRUE, value, next] or ParseFailed. Of the grammar it leaves out *)
(* exponents, more than one fraction digit and the escapes \b \f \u.       *)
(***************************************************************************)
ParseFailed == [ok |-> FALSE]
Parsed(v, next) == [ok |-> TRUE, value |-> v, next |-> next]

Whitespace == {" ", "\n", "\t", "\r"}

RECURSIVE SkipWhitespace(_, _)
SkipWhitespace(text, i) ==
    IF i <= Len(text) /\ text[i] \in Whitespace
    THEN SkipWhitespace(text, i + 1)
    ELSE i

\* Whether word stands in text at position i.
StartsWith(text, i, word) ==
    /\ i + Len(word) - 1 <= Len(text)
    /\ \A k \in DOMAIN word : text[i + k - 1] = word[k]

\* The characters of a string literal from position i (after its opening
\* quote) up to its closing quote, collected in acc.
RECURSIVE ParseStringBody(_, _, _)
ParseStringBody(text, i, acc) ==
    IF i > Len(text) THEN ParseFailed
    ELSE IF text[i] = Quote THEN Parsed(Str(acc), i + 1)
    ELSE IF text[i] \in {Newline, "\t", "\r"} THEN ParseFailed
    ELSE IF text[i] = Backslash
    THEN IF i + 1 > Len(text) THEN ParseFailed
         ELSE CASE text[i + 1] = Quote ->
                        ParseStringBody(text, i + 2, Append(acc, Quote))
                [] text[i + 1] = Backslash ->
                        ParseStringBody(text, i + 2, Append(acc, Backslash))
                [] text[i + 1] = "/" ->
                        ParseStringBody(text, i + 2, Append(acc, "/"))
                [] text[i + 1] = "n" ->
                        ParseStringBody(text, i + 2, Append(acc, Newline))
                [] text[i + 1] = "t" ->
                        ParseStringBody(text, i + 2, Append(acc, "\t"))
                [] text[i + 1] = "r" ->
                        ParseStringBody(text, i + 2, Append(acc, "\r"))
                [] OTHER -> ParseFailed
    ELSE ParseStringBody(text, i + 1, Append(acc, text[i]))

IsDigit(c) == c \in Range(DigitChars)

DigitValue(c) == (CHOOSE d \in DOMAIN DigitChars : DigitChars[d] = c) - 1

\* The digits from position i on, as [value, next].
RECURSIVE ParseDigits(_, _, _)
ParseDigits(text, i, acc) ==
    IF i <= Len(text) /\ IsDigit(text[i])
    THEN ParseDigits(text, i + 1, 10 * acc + DigitValue(text[i]))
    ELSE [value |-> acc, next |-> i]

\* -? (0 | [1-9][0-9]*) (. [0-9])?
ParseNumber(text, i) ==
    LET neg == i <= Len(text) /\ text[i] = "-"
        j == IF neg THEN i + 1 ELSE i
        int == ParseDigits(text, j, 0)
        leadingZero == text[j] = "0" /\ int.next > j + 1
        hasFrac == int.next <= Len(text) /\ text[int.next] = "."
        frac == ParseDigits(text, int.next + 1, 0)
        sign == IF neg THEN 0 - 1 ELSE 1
    IN  IF j > Len(text) \/ ~IsDigit(text[j]) \/ leadingZero THEN ParseFailed
        ELSE IF ~hasFrac THEN Parsed(Num(sign * 10 * int.value), int.next)
        ELSE IF frac.next # int.next + 2 THEN ParseFailed
        ELSE Parsed(Num(sign * (10 * int.value + frac.value)), frac.next)

RECURSIVE ParseValue(_, _), ParseElements(_, _, _), ParseMembers(_, _, _)

\* A value from position i on, after whitespace.
ParseValue(text, at) ==
    LET i == SkipWhitespace(text, at)
    IN  IF i > Len(text) THEN ParseFailed
        ELSE IF text[i] = Quote THEN ParseStringBody(text, i + 1, <<>>)
        ELSE IF text[i] = "[" THEN
            LET j == SkipWhitespace(text, i + 1)
            IN  IF j <= Len(text) /\ text[j] = "]"
                THEN Parsed(Arr(<<>>), j + 1)
                ELSE ParseElements(text, i + 1, <<>>)
        ELSE IF text[i] = "{" THEN
            LET j == SkipWhitespace(text, i + 1)
            IN  IF j <= Len(text) /\ text[j] = "}"
                THEN Parsed(Obj(<<>>), j + 1)
                ELSE ParseMembers(text, i + 1, <<>>)
        ELSE IF StartsWith(text, i, <<"n", "u", "l", "l">>) THEN Parsed(Null, i + 4)
        ELSE IF StartsWith(text, i, <<"t", "r", "u", "e">>) THEN Parsed(Bool(TRUE), i + 4)
        ELSE IF StartsWith(text, i, <<"f", "a", "l", "s", "e">>) THEN Parsed(Bool(FALSE), i + 5)
        ELSE ParseNumber(text, i)

\* The elements of an array from position i on, up to its closing bracket.
ParseElements(text, i, acc) ==
    LET e == ParseValue(text, i)
        j == SkipWhitespace(text, e.next)
    IN  IF ~e.ok \/ j > Len(text) THEN ParseFailed
        ELSE IF text[j] = "]" THEN Parsed(Arr(Append(acc, e.value)), j + 1)
        ELSE IF text[j] = Comma
        THEN ParseElements(text, j + 1, Append(acc, e.value))
        ELSE ParseFailed

\* The members of an object from position i on, up to its closing brace.
ParseMembers(text, at, acc) ==
    LET i == SkipWhitespace(text, at)
        k == IF i <= Len(text) /\ text[i] = Quote
             THEN ParseStringBody(text, i + 1, <<>>)
             ELSE ParseFailed
        c == SkipWhitespace(text, k.next)
        v == ParseValue(text, c + 1)
        j == SkipWhitespace(text, v.next)
    IN  IF ~k.ok \/ c > Len(text) THEN ParseFailed
        ELSE IF text[c] # ":" THEN ParseFailed
        ELSE IF ~v.ok \/ j > Len(text) THEN ParseFailed
        ELSE IF text[j] = "}"
        THEN Parsed(Obj(Append(acc, Prop(k.value.s, v.value))), j + 1)
        ELSE IF text[j] = Comma
        THEN ParseMembers(text, j + 1, Append(acc, Prop(k.value.s, v.value)))
        ELSE ParseFailed

\* JSON.parse(text): the value, or ParseFailed where it throws a SyntaxError.
JsonParse(text) ==
    LET r == ParseValue(text, 1)
    IN  IF r.ok /\ SkipWhitespace(text, r.next) = Len(text) + 1
        THEN r
        ELSE ParseFailed

\* A mutant of formatJsonValue: a string is returned as it is, JSON or not.
formatJsonValueVerbatim(value) ==
    IF value = Null \/ value = Undefined THEN <<>>
    ELSE IF value.t = "string" THEN value.s
    ELSE IF Unserializable(value) THEN JsString(value)
    ELSE Serialize(value)

\* formatJsonValue. Its result is a string; JSON.stringify of undefined is not
\* reached, as undefined returns at the first test.
formatJsonValue(value) ==
    IF value = Null \/ value = Undefined THEN <<>>
    ELSE IF value.t = "string"
    THEN LET parsed == JsonParse(value.s)
         IN  IF parsed.ok THEN Serialize(parsed.value) ELSE value.s
    ELSE IF Unserializable(value) THEN JsString(value)
    ELSE Serialize(value)

\* A mutant of escapeJsonForCsv: the empty text is wrapped in quotes too.
escapeJsonForCsvAlways(jsonString) == Quoted(jsonString)

\* escapeJsonForCsv
escapeJsonForCsv(jsonString) ==
    IF jsonString = <<>> THEN <<>> ELSE Quoted(jsonString)


(***************************************************************************)
(* exportExperimentToCsv: the run items                                    *)
(***************************************************************************)
\* A Date by its ISO-8601 text, and the Date whose time value is NaN.
ValidDate(iso) == [t |-> "date", valid |-> TRUE, iso |-> iso]
InvalidDate == [t |-> "date", valid |-> FALSE]

\* A Decimal (decimal.js) of the given number.
Decimal(n) == [t |-> "decimal", n |-> n]

\* Score aggregates, and one entry of a value-count distribution.
NumericAggregate(average) ==
    [t |-> "object", type |-> "NUMERIC", average |-> average]
ValueCount(value, count) == [value |-> value, count |-> count]
CategoricalAggregate(valueCounts) ==
    [t |-> "object", type |-> "CATEGORICAL", valueCounts |-> valueCounts]

\* !v for the values of a run item: null, undefined, the empty string and the
\* number 0 are falsy, every object is truthy.
IsFalsy(v) ==
    \/ v.t \in {"null", "undefined"}
    \/ v.t = "string" /\ v.s = <<>>
    \/ v.t = "number" /\ v.tenths = 0

\* a ?? b
Coalesce(a, b) == IF a.t \in {"null", "undefined"} THEN b ELSE a

\* obj?.field
Optional(obj, field) ==
    IF obj.t \in {"null", "undefined"} THEN Undefined ELSE obj[field]

\* item.scores?.[scoreName]
ScoreOf(item, scoreName) ==
    IF item.scores.t \in {"null", "undefined"} THEN Undefined
    ELSE IF \E i \in DOMAIN item.scores.props :
                item.scores.props[i].key = scoreName
    THEN LET i == CHOOSE i \in DOMAIN item.scores.props :
                        item.scores.props[i].key = scoreName
         IN  item.scores.props[i].value
    ELSE Undefined

\* Object.keys(item.scores)
ScoreKeys(item) ==
    [i \in DOMAIN item.scores.props |-> item.scores.props[i].key]

\* Set.prototype.add on a Set kept in insertion order.
SetAdd(set, x) == IF x \in Range(set) THEN set ELSE Append(set, x)

RECURSIVE AddEach(_, _)
AddEach(set, keys) ==
    IF keys = <<>> THEN set ELSE AddEach(SetAdd(set, Head(keys)), Tail(keys))

\* A mutant of CollectScoreNames: only the first run item is scanned.
RECURSIVE CollectScoreNamesFirstOnly(_, _)
CollectScoreNamesFirstOnly(items, set) ==
    IF items = <<>> THEN set
    ELSE IF IsFalsy(Head(items).scores) THEN set
    ELSE AddEach(set, ScoreKeys(Head(items)))

\* runItems.forEach(item => { if (item.scores) Object.keys(...).forEach(add) })
RECURSIVE CollectScoreNames(_, _)
CollectScoreNames(items, set) ==
    IF items = <<>> THEN set
    ELSE CollectScoreNames(
            Tail(items),
            IF IsFalsy(Head(items).scores) THEN set
            ELSE AddEach(set, ScoreKeys(Head(items))))

RECURSIVE SortedInsert(_, _)
SortedInsert(sorted, x) ==
    IF sorted = <<>> THEN <<x>>
    ELSE IF TextLess(x, Head(sorted)) THEN <<x>> \o sorted
    ELSE <<Head(sorted)>> \o SortedInsert(Tail(sorted), x)

\* Array.prototype.sort() of strings, without a comparator.
RECURSIVE Sort(_)
Sort(texts) ==
    IF texts = <<>> THEN <<>>
    ELSE SortedInsert(Sort(SubSeq(texts, 1, Len(texts) - 1)),
                      texts[Len(texts)])

\* Array.from(scoreNames).sort().map(name => `Score: ${name}`)
scoreHeaders(scoreNames) ==
    LET sorted == Sort(scoreNames)
    IN  [i \in DOMAIN sorted |-> ScoreHeader(sorted[i])]

\* [...baseHeaders, ...scoreHeaders]
allHeaders(scoreNames) == baseHeaders \o scoreHeaders(scoreNames)

\* const mostCommon = scoreData.valueCounts?.[0];
\* mostCommon ? String(mostCommon.value) : ""
CategoricalCell(valueCounts) ==
    IF valueCounts.t = "undefined" \/ valueCounts.items = <<>> THEN <<>>
    ELSE valueCounts.items[1].value

\* A mutant of NumericCell: an average of 0 is taken for an absent one.
NumericCellZeroBlind(average) ==
    IF IsFalsy(average) THEN <<>> ELSE NumberToString(average)

\* String(scoreData.average ?? "")
NumericCell(average) ==
    IF average.t \in {"null", "undefined"} THEN <<>>
    ELSE NumberToString(average)

\* A mutant of ScoreCell: a score that is no object gives an empty cell.
ScoreCellPrimitivesBlank(scoreData) ==
    IF scoreData.t \in {"null", "undefined"} THEN <<>>
    ELSE IF scoreData.t = "object" /\ "type" \in DOMAIN scoreData
    THEN IF scoreData.type = "NUMERIC" /\ "average" \in DOMAIN scoreData
         THEN NumericCell(scoreData.average)
         ELSE IF scoreData.type = "CATEGORICAL"
                    /\ "valueCounts" \in DOMAIN scoreData
         THEN CategoricalCell(scoreData.valueCounts)
         ELSE <<>>
    ELSE <<>>

\* typeof scoreData === "object", for a value that is not null.
TypeofObject(v) == v.t \notin {"string", "number", "boolean", "undefined"}

\* scoreData.type; an object without the property gives undefined.
TypeOf(scoreData) ==
    IF "type" \in DOMAIN scoreData THEN scoreData.type ELSE "undefined"

\* The value the scoreNames.forEach loop stores for one score of an item.
ScoreCell(scoreData) ==
    IF scoreData.t \in {"null", "undefined"} THEN <<>>
    ELSE IF TypeofObject(scoreData)
    THEN IF TypeOf(scoreData) = "NUMERIC" /\ "average" \in DOMAIN scoreData
         THEN NumericCell(scoreData.average)
         ELSE IF TypeOf(scoreData) = "CATEGORICAL"
                    /\ "valueCounts" \in DOMAIN scoreData
         THEN CategoricalCell(scoreData.valueCounts)
         ELSE <<>>
    ELSE JsString(scoreData)

\* item.observation?.latency ?? item.trace?.duration ?? undefined
Latency(item) ==
    Coalesce(Coalesce(Optional(item.observation, "latency"),
                      Optional(item.trace, "duration")),
             Undefined)

\* Whether the computation of totalCost throws: a truthy calculatedTotalCost
\* that is no Decimal has no toNumber method.
TotalCostThrows(item) ==
    LET c == Optional(item.observation, "calculatedTotalCost")
    IN  ~IsFalsy(c) /\ c.t # "decimal"

\* item.observation?.calculatedTotalCost
\*   ? item.observation.calculatedTotalCost.toNumber()
\*   : item.trace?.totalCost ?? undefined
TotalCost(item) ==
    LET c == Optional(item.observation, "calculatedTotalCost")
    IN  IF ~IsFalsy(c) THEN c.n
        ELSE Coalesce(Optional(item.trace, "totalCost"), Undefined)

\* Whether new Date(item.createdAt).toISOString() throws a RangeError.
RunAtThrows(item) ==
    ~IsFalsy(item.createdAt) /\ ~item.createdAt.valid

\* item.createdAt ? new Date(item.createdAt).toISOString() : ""
RunAt(item) ==
    IF IsFalsy(item.createdAt) THEN <<>> ELSE item.createdAt.iso

\* x !== undefined ? String(x) : ""
DefinedToString(x) == IF x = Undefined THEN <<>> ELSE JsString(x)

\* item.trace?.id || ""
IdOrEmpty(obj) ==
    LET id == Optional(obj, "id")
    IN  IF IsFalsy(id) THEN <<>> ELSE id.s

\* The row object of one run item: its value under every header.
Row(item, scoreNames) ==
    [h \in Range(allHeaders(scoreNames)) |->
        CASE h = baseHeaders[1] -> item.datasetItemId.s
          [] h = baseHeaders[2] -> RunAt(item)
          [] h = baseHeaders[3] -> IdOrEmpty(item.trace)
          [] h = baseHeaders[4] -> IdOrEmpty(item.observation)
          [] h = baseHeaders[5] ->
                escapeJsonForCsv(formatJsonValue(item.datasetItemInput))
          [] h = baseHeaders[6] ->
                escapeJsonForCsv(
                    formatJsonValue(item.datasetItemExpectedOutput))
          [] h = baseHeaders[7] ->
                escapeJsonForCsv(formatJsonValue(item.traceOutput))
          [] h = baseHeaders[8] ->
                escapeJsonForCsv(formatJsonValue(item.traceMetadata))
          [] h = baseHeaders[9] -> DefinedToString(Latency(item))
          [] h = baseHeaders[10] -> DefinedToString(TotalCost(item))
          [] h = baseHeaders[11] -> <<>>
          [] OTHER ->
                LET name == CHOOSE n \in Range(scoreNames) : ScoreHeader(n) = h
                IN  ScoreCell(ScoreOf(item, name))]

\* The error the construction of an item's row throws, if any.
RowThrows(item) == TotalCostThrows(item) \/ RunAtThrows(item)

RowError(item) == IF TotalCostThrows(item) THEN "TypeError" ELSE "RangeError"

\* The cells of the header record.
HeaderRecord(headers) == [i \in DOMAIN headers |-> escapeCsvValue(headers[i])]

\* The cells of the record of one row. Every value of a row is a string, so
\* that row[header] || "" is the value itself.
RowRecord(row, headers) ==
    [i \in DOMAIN headers |->
        IF headers[i] \in jsonFields
        THEN row[headers[i]]
        ELSE escapeCsvValue(row[headers[i]])]

\* A mutant of CsvReturned: every record ends with a line break.
CsvReturnedTrailingNewline(records) ==
    [status |-> "returned",
     records |-> records,
     text |-> Join([i \in DOMAIN records |-> Join(records[i], <<Comma>>)],
                   <<Newline>>) \o <<Newline>>]

\* csvRows.join("\n"), with the cells of the records kept beside the text.
CsvReturned(records) ==
    [status |-> "returned",
     records |-> records,
     text |-> Join([i \in DOMAIN records |-> Join(records[i], <<Comma>>)],
                   <<Newline>>)]

CsvThrew(error) == [status |-> "threw", error |-> error]

\* The function past its test for an empty list.
ExportRows(items) ==
    LET scoreNames == CollectScoreNames(items, <<>>)
        headers == allHeaders(scoreNames)
        failing == {i \in DOMAIN items : RowThrows(items[i])}
    IN  IF failing # {}
        THEN CsvThrew(RowError(items[CHOOSE i \in failing :
                                        \A j \in failing : i <= j]))
        ELSE CsvReturned(
                <<HeaderRecord(headers)>>
                \o [i \in DOMAIN items |->
                        RowRecord(Row(items[i], scoreNames), headers)])

\* A mutant of exportExperimentToCsv: no test for an empty list.
exportExperimentToCsvAlwaysHeader(items, name) == ExportRows(items)

exportExperimentToCsv(items, name) ==
    IF Len(items) = 0
    THEN [status |-> "returned", records |-> <<>>, text |-> <<>>]
    ELSE ExportRows(items)


(***************************************************************************)
(* exportExperimentToCsv: the inputs of the model and the call             *)
(***************************************************************************)
MaxItems == 2

BaseItem ==
    [datasetItemId |-> Str(<<"i", "t", "e", "m", "1">>),
     createdAt |-> ValidDate(<<"2", "0", "2", "4", "-", "0", "1", "-", "0", "1", "T", "0", "0", ":", "0", "0", ":", "0", "0", ".", "0", "0", "0", "Z">>),
     trace |-> [t |-> "object", id |-> Str(<<"t", "r", "a", "c", "e", "1">>),
                duration |-> Num(15), totalCost |-> Num(2)],
     observation |-> Undefined,
     scores |-> Undefined,
     datasetItemInput |-> Obj(<<Prop(<<"q">>, Num(10))>>),
     datasetItemExpectedOutput |-> Str(<<"o", "k">>),
     traceOutput |-> Str(<<"[", "1", ",", " ", "2", "]">>),
     traceMetadata |-> Null]

ScoreDatas ==
    {NumericAggregate(Num(9)),
     NumericAggregate(Num(0)),
     CategoricalAggregate(Arr(<<ValueCount(<<"x">>, 1), ValueCount(<<"y">>, 3)>>)),
     CategoricalAggregate(Arr(<<ValueCount(<<"y">>, 3), ValueCount(<<"x">>, 1)>>)),
     CategoricalAggregate(Arr(<<>>)),
     Null}

ScoreMaps ==
    {Obj(<<Prop(n, d)>>) : n \in {<<"a", "c", "c", "u", "r", "a", "c", "y">>, <<"b">>}, d \in ScoreDatas}
    \cup {Obj(<<Prop(<<"B">>, NumericAggregate(Num(25)))>>),
          Obj(<<Prop(<<"a", ",", "b">>, NumericAggregate(Num(9)))>>),
          Obj(<<Prop(<<"b">>, NumericAggregate(Num(9))),
                Prop(<<"a", "c", "c", "u", "r", "a", "c", "y">>,
                     CategoricalAggregate(Arr(<<ValueCount(<<"x", ",", "y">>, 2)>>)))>>),
          Obj(<<>>),
          Null}

\* Run items as the export endpoint hands them over: createdAt is a valid Date
\* or null and calculatedTotalCost a Decimal or null.
Items ==
    {BaseItem}
    \cup {[BaseItem EXCEPT !.scores = s] : s \in ScoreMaps}
    \cup {[BaseItem EXCEPT !.createdAt = Null]}
    \cup {[BaseItem EXCEPT !.datasetItemId = Str(id)] :
            id \in {<<"i", "t", "e", "m", "2">>, <<"l", "i", "n", "e", "1", "\n", "l", "i", "n", "e", "2">>}}
    \cup {[BaseItem EXCEPT !.observation =
                [t |-> "object", id |-> Str(<<"o", "b", "s", "1">>), latency |-> Null,
                 calculatedTotalCost |-> Decimal(Num(0))]]}

RunNames == {<<"r", "u", "n", "1">>, <<"r", "u", "n", " ", "2">>}

ItemLists == UNION {[1..n -> Items] : n \in 0..MaxItems}

NoCsv == [status |-> "none"]

CsvInit ==
    /\ runItems \in ItemLists
    /\ runName \in RunNames
    /\ csvPc = "called"
    /\ csv = NoCsv

\* exportExperimentToCsv(runItems, runName) runs to its end.
Export ==
    /\ csvPc = "called"
    /\ csv' = exportExperimentToCsv(runItems, runName)
    /\ csvPc' = "exported"
    /\ UNCHANGED <<runItems, runName>>
    /\ UNCHANGED <<byIdVars, urlVars, formVars>>

\* The export is not in use.
CsvIdle ==
    /\ runItems = <<>>
    /\ runName = <<>>
    /\ csvPc = "idle"
    /\ csv = NoCsv

\* The router is not in use.
ByIdIdle ==
    /\ flag = "false"
    /\ pc = "parked"
    /\ input = NoInput
    /\ queryOpts = NoOpts
    /\ calls = <<>>
    /\ result = NoResult

(***************************************************************************)
(* Run items that differ from BaseItem in one cell: a score entry of any   *)
(* shape, which item.scores?.[scoreName] does not rule out.                *)
(***************************************************************************)
OtherScoreDatas ==
    {[t |-> "object", type |-> "BOOLEAN", average |-> Num(10)],
     [t |-> "object", type |-> "NUMERIC"],
     [t |-> "object", type |-> "CATEGORICAL"],
     [t |-> "object"],
     Arr(<<Num(10)>>),
     Num(5),
     Num(0),
     Str(<<"p", "a", "s", "s">>),
     Str(<<"a", ",", "b">>),
     Str(<<>>),
     Bool(FALSE)}

ScoreShapeItems ==
    {[BaseItem EXCEPT !.scores = Obj(<<Prop(<<"s">>, d)>>)] :
        d \in OtherScoreDatas \cup {NumericAggregate(Num(9))}}

\* Run items whose text cells and score names hold the characters that
\* escapeCsvValue looks for, and a carriage return, which it does not.
EscapeItems ==
    {[BaseItem EXCEPT !.datasetItemId = Str(id)] :
        id \in {<<"a", ",", "b">>, <<"a", "\"", "b">>, <<"a", "\n", "b">>, <<"a", "\r", "b">>, <<"\"">>}}
    \cup {[BaseItem EXCEPT !.trace.id = Str(<<"t", ",", "1">>)],
          [BaseItem EXCEPT !.observation =
                [t |-> "object", id |-> Str(<<"o", "\"", "1">>), latency |-> Num(20),
                 calculatedTotalCost |-> Null]],
          [BaseItem EXCEPT !.scores =
                Obj(<<Prop(<<"s", "\"", "q">>, NumericAggregate(Num(9)))>>)],
          [BaseItem EXCEPT !.scores =
                Obj(<<Prop(<<"n", "\n", "l">>, Str(<<"p", "\"", "q">>))>>)],
          [BaseItem EXCEPT !.scores =
                Obj(<<Prop(<<"s">>,
                           CategoricalAggregate(
                               Arr(<<ValueCount(<<"x", ",", "\"", "y", "\"">>, 2)>>)))>>)]}

CellItems == {BaseItem} \cup ScoreShapeItems \cup EscapeItems

CellItemLists == UNION {[1..n -> CellItems] : n \in 0..MaxItems}

CsvCellsInit ==
    /\ runItems \in CellItemLists
    /\ runName \in RunNames
    /\ csvPc = "called"
    /\ csv = NoCsv

(***************************************************************************)
(* Run items that differ from BaseItem in one JSON field. The fields are   *)
(* typed unknown: strings that hold JSON or do not, structured values,     *)
(* values JSON.stringify throws on, and absent values.                     *)
(***************************************************************************)
JsonValues ==
    {Null,
     Undefined,
     Str(<<>>),
     Str(<<"{", "\"", "a", "\"", ":", " ", "1", ",", " ", "\"", "b", "\"", ":", " ", "[", "t", "r", "u", "e", ",", " ", "n", "u", "l", "l", "]", "}">>),
     Str(<<"h", "e", "l", "l", "o">>),
     Str(<<"s", "a", "y", " ", "\"", "h", "i", "\"">>),
     Str(<<"\"", "x", "\"">>),
     Str(<<"1", "2">>),
     Str(<<"{", "b", "a", "d">>),
     Str(<<"a", "\n", "b">>),
     Obj(<<Prop(<<"k">>, Str(<<"v", "\"", "w">>))>>),
     Arr(<<Num(10), Null>>),
     Obj(<<Prop(<<"s", "e", "l", "f">>, Cyclic)>>),
     Num(15),
     Bool(TRUE)}

JsonFieldNames ==
    <<"datasetItemInput", "datasetItemExpectedOutput", "traceOutput",
      "traceMetadata">>

JsonItems ==
    {BaseItem} \cup
    {[BaseItem EXCEPT !.datasetItemInput = v] : v \in JsonValues}
    \cup {[BaseItem EXCEPT ![JsonFieldNames[k]] = v] :
            k \in 2..4,
            v \in {Undefined, Str(<<>>), Str(<<"{", "\"", "a", "\"", ":", " ", "1", ",", " ", "\"", "b", "\"", ":", " ", "[", "t", "r", "u", "e", ",", " ", "n", "u", "l", "l", "]", "}">>),
                   Obj(<<Prop(<<"s", "e", "l", "f">>, Cyclic)>>)}}

JsonItemLists == UNION {[1..n -> JsonItems] : n \in 0..MaxItems}

CsvJsonInit ==
    /\ runItems \in JsonItemLists
    /\ runName \in RunNames
    /\ csvPc = "called"
    /\ csv = NoCsv

(***************************************************************************)
(* Run items with malformed data in a row: a createdAt that is no valid    *)
(* date, a calculatedTotalCost that is no Decimal, IO that JSON.stringify  *)
(* throws on, a score of an unknown shape.                                 *)
(***************************************************************************)
MalformedItems ==
    {BaseItem,
     [BaseItem EXCEPT !.createdAt = InvalidDate],
     [BaseItem EXCEPT !.observation =
            [t |-> "object", id |-> Str(<<"o", "b", "s", "1">>), latency |-> Null,
             calculatedTotalCost |-> Num(15)]],
     [BaseItem EXCEPT !.observation =
            [t |-> "object", id |-> Str(<<"o", "b", "s", "1">>), latency |-> Null,
             calculatedTotalCost |-> Str(<<"1", ".", "5">>)]],
     [BaseItem EXCEPT !.observation =
            [t |-> "object", id |-> Str(<<"o", "b", "s", "1">>), latency |-> Null,
             calculatedTotalCost |-> Num(0)]],
     [BaseItem EXCEPT !.datasetItemInput = Obj(<<Prop(<<"s", "e", "l", "f">>, Cyclic)>>)],
     [BaseItem EXCEPT !.traceMetadata = Cyclic],
     [BaseItem EXCEPT !.scores =
            Obj(<<Prop(<<"s">>, [t |-> "object", type |-> "BOOLEAN"])>>)]}

MalformedItemLists == UNION {[1..n -> MalformedItems] : n \in 0..MaxItems}

CsvMalformedInit ==
    /\ runItems \in MalformedItemLists
    /\ runName \in RunNames
    /\ csvPc = "called"
    /\ csv = NoCsv

(***************************************************************************)
(* The remote experiment form: URLs as text                                *)
(***************************************************************************)
UpperChars == <<"A", "B", "C", "D", "E", "F", "G", "H", "I", "J", "K", "L", "M", "N", "O", "P", "Q", "R", "S", "T", "U", "V", "W", "X", "Y", "Z">>

LowerChars == <<"a", "b", "c", "d", "e", "f", "g", "h", "i", "j", "k", "l", "m", "n", "o", "p", "q", "r", "s", "t", "u", "v", "w", "x", "y", "z">>

IsAlpha(c) == c \in Range(UpperChars) \cup Range(LowerChars)

ToLowerChar(c) ==
    IF c \in Range(UpperChars)
    THEN LowerChars[CHOOSE i \in DOMAIN UpperChars : UpperChars[i] = c]
    ELSE c

ToLower(text) == [i \in DOMAIN text |-> ToLowerChar(text[i])]

\* The first position from i on that holds one of the characters, or the
\* position after the text.
FirstOf(text, i, stops) ==
    IF \E j \in i..Len(text) : text[j] \in stops
    THEN CHOOSE j \in i..Len(text) :
            /\ text[j] \in stops
            /\ \A k \in i..(j - 1) : text[k] \notin stops
    ELSE Len(text) + 1

\* text.split(sep)
SplitAt(text, sep) ==
    LET cuts == {i \in DOMAIN text : text[i] = sep}
        n == Cardinality(cuts)
        Nth(k) == IF k = 0 THEN 0
                  ELSE IF k = n + 1 THEN Len(text) + 1
                  ELSE CHOOSE p \in cuts :
                            Cardinality({q \in cuts : q < p}) = k - 1
    IN  [k \in 1..(n + 1) |-> SubSeq(text, Nth(k - 1) + 1, Nth(k) - 1)]

AllDigits(text) == text # <<>> /\ \A i \in DOMAIN text : IsDigit(text[i])

\* A mutant of buildUrl: the port is left out of the URL.
buildUrlWithoutPort(baseUrl, port, endpoint) ==
    (IF baseUrl = <<"l", "o", "c", "a", "l", "h", "o", "s", "t">> THEN <<"h", "t", "t", "p">> ELSE <<"h", "t", "t", "p", "s">>)
        \o <<":", "/", "/">> \o baseUrl \o endpoint

\* buildUrl of the split form: the three fields are strings.
buildUrl(baseUrl, port, endpoint) ==
    LET protocol == IF baseUrl = <<"l", "o", "c", "a", "l", "h", "o", "s", "t">> THEN <<"h", "t", "t", "p">> ELSE <<"h", "t", "t", "p", "s">>
        host == IF port # <<>> THEN baseUrl \o <<":">> \o port ELSE baseUrl
    IN  protocol \o <<":", "/", "/">> \o host \o endpoint

UrlReturned(url) == [status |-> "returned", url |-> url]

UrlThrew(message) == [status |-> "threw", message |-> message]

\* buildUrlFromEnv of the path-only form: baseUrl is a string or null, port a
\* number or null, endpoint a string.
buildUrlFromEnv(baseUrl, port, endpoint) ==
    IF IsFalsy(baseUrl) THEN UrlThrew("Base URL not configured")
    ELSE LET protocol == IF baseUrl.s = <<"l", "o", "c", "a", "l", "h", "o", "s", "t">>
                              \/ baseUrl.s = <<"h", "o", "s", "t", ".", "d", "o", "c", "k", "e", "r", ".", "i", "n", "t", "e", "r", "n", "a", "l">>
                         THEN <<"h", "t", "t", "p">>
                         ELSE <<"h", "t", "t", "p", "s">>
             host == IF ~IsFalsy(port)
                     THEN baseUrl.s \o <<":">> \o NumberToString(port)
                     ELSE baseUrl.s
         IN  UrlReturned(protocol \o <<":", "/", "/">> \o host \o endpoint)

(***************************************************************************)
(* new URL(url), after the URL Standard, for a text without a base. It     *)
(* gives [ok |-> TRUE, protocol, hostname, port, pathname] or UrlFailure   *)
(* when the constructor throws. Of the standard it leaves out the file     *)
(* scheme, IPv6 and hexadecimal IPv4 hosts, non-ASCII hosts, white space   *)
(* around the text, and in a path the dot segments, the backslashes and    *)
(* the percent-encoding.                                                   *)
(***************************************************************************)
UrlFailure == [ok |-> FALSE]

SchemeChar(c) == IsAlpha(c) \/ IsDigit(c) \/ c \in {"+", "-", "."}

\* The position of the colon that ends the scheme, or 0 without a scheme.
SchemeEnd(text) ==
    LET p == FirstOf(text, 1, {":"})
    IN  IF /\ p <= Len(text)
           /\ p > 1
           /\ IsAlpha(text[1])
           /\ \A i \in 2..(p - 1) : SchemeChar(text[i])
        THEN p
        ELSE 0

SpecialSchemes == {<<"h", "t", "t", "p">>, <<"h", "t", "t", "p", "s">>, <<"w", "s">>, <<"w", "s", "s">>, <<"f", "t", "p">>}

DefaultPort(scheme) ==
    CASE scheme \in {<<"h", "t", "t", "p">>, <<"w", "s">>} -> <<"8", "0">>
      [] scheme \in {<<"h", "t", "t", "p", "s">>, <<"w", "s", "s">>} -> <<"4", "4", "3">>
      [] scheme = <<"f", "t", "p">> -> <<"2", "1">>
      [] OTHER -> <<>>

\* The port of a URL record: a number up to 65535, empty for the default
\* port of the scheme.
UrlPort(buffer, scheme) ==
    IF buffer = <<>> THEN [ok |-> TRUE, port |-> <<>>]
    ELSE IF ~AllDigits(buffer) THEN UrlFailure
    ELSE LET n == ParseDigits(buffer, 1, 0).value
         IN  IF n > 65535 THEN UrlFailure
             ELSE [ok |-> TRUE,
                   port |-> IF Digits(n) = DefaultPort(scheme) THEN <<>>
                            ELSE Digits(n)]

ForbiddenHostChars ==
    {" ", "#", "/", ":", "<", ">", "?", "@", "[", "\\", "]", "^", "|", "%"}

\* The number an IPv4 part stands for, or -1: a part with a leading 0 is
\* octal.
RECURSIVE OctalValue(_, _, _)
OctalValue(text, i, acc) ==
    IF i > Len(text) THEN acc
    ELSE IF DigitValue(text[i]) > 7 THEN -1
    ELSE OctalValue(text, i + 1, 8 * acc + DigitValue(text[i]))

Ipv4Part(label) ==
    IF ~AllDigits(label) THEN -1
    ELSE IF Len(label) > 1 /\ label[1] = "0" THEN OctalValue(label, 2, 0)
    ELSE ParseDigits(label, 1, 0).value

RECURSIVE Power(_, _)
Power(b, e) == IF e = 0 THEN 1 ELSE b * Power(b, e - 1)

\* The IPv4 parser and serializer, on the parts of a host that ends in a
\* number.
Ipv4Host(labels) ==
    LET k == Len(labels)
        n == [i \in 1..k |-> Ipv4Part(labels[i])]
    IN  IF \/ k > 4
           \/ \E i \in 1..k : n[i] < 0
           \/ \E i \in 1..(k - 1) : n[i] > 255
           \/ n[k] >= Power(256, 5 - k)
        THEN UrlFailure
        ELSE LET RECURSIVE Address(_)
                 Address(i) ==
                    IF i = k THEN n[k]
                    ELSE n[i] * Power(256, 4 - i) + Address(i + 1)
                 a == Address(1)
             IN  [ok |-> TRUE,
                  hostname |->
                      Digits(a \div Power(256, 3)) \o <<".">>
                        \o Digits((a \div Power(256, 2)) % 256) \o <<".">>
                        \o Digits((a \div 256) % 256) \o <<".">>
                        \o Digits(a % 256)]

\* The host of a URL with a special scheme: lower case, failure on an empty
\* host or a forbidden character, an IPv4 address when it ends in a number.
UrlHost(buffer) ==
    IF buffer = <<>> \/ \E i \in DOMAIN buffer : buffer[i] \in ForbiddenHostChars
    THEN UrlFailure
    ELSE LET domain == ToLower(buffer)
             all == SplitAt(domain, ".")
             labels == IF Len(all) > 1 /\ all[Len(all)] = <<>>
                       THEN SubSeq(all, 1, Len(all) - 1)
                       ELSE all
         IN  IF AllDigits(labels[Len(labels)])
             THEN Ipv4Host(labels)
             ELSE [ok |-> TRUE, hostname |-> domain]

\* The host of a URL with another scheme: opaque, possibly empty.
OpaqueHost(buffer) ==
    IF \E i \in DOMAIN buffer : buffer[i] \in ForbiddenHostChars \ {"%"}
    THEN UrlFailure
    ELSE [ok |-> TRUE, hostname |-> buffer]

\* The authority without its credentials: what follows the last @.
AfterCredentials(authority) ==
    LET ats == {i \in DOMAIN authority : authority[i] = "@"}
    IN  IF ats = {} THEN authority
        ELSE SubSeq(authority,
                    (CHOOSE i \in ats : \A j \in ats : j <= i) + 1,
                    Len(authority))

RECURSIVE SkipSlashes(_, _)
SkipSlashes(text, i) ==
    IF i <= Len(text) /\ text[i] \in {"/", "\\"}
    THEN SkipSlashes(text, i + 1)
    ELSE i

UrlRecord(scheme, host, port, path) ==
    IF ~host.ok \/ ~port.ok THEN UrlFailure
    ELSE [ok |-> TRUE,
          protocol |-> scheme \o <<":">>,
          hostname |-> host.hostname,
          port |-> port.port,
          pathname |-> path]

\* A URL with a special scheme, from the position after the colon.
SpecialUrl(text, scheme, i) ==
    LET a == SkipSlashes(text, i)
        b == FirstOf(text, a, {"/", "\\", "?", "#"})
        authority == AfterCredentials(SubSeq(text, a, b - 1))
        c == FirstOf(authority, 1, {":"})
        e == FirstOf(text, b, {"?", "#"})
        path == SubSeq(text, b, e - 1)
    IN  UrlRecord(scheme,
                  UrlHost(SubSeq(authority, 1, c - 1)),
                  UrlPort(SubSeq(authority, c + 1, Len(authority)), scheme),
                  IF path = <<>> THEN <<"/">> ELSE path)

\* A URL with another scheme: with an authority after //, with a path after
\* /, and with an opaque path otherwise.
OtherUrl(text, scheme, i) ==
    IF StartsWith(text, i, <<"/", "/">>)
    THEN LET a == i + 2
             b == FirstOf(text, a, {"/", "?", "#"})
             authority == AfterCredentials(SubSeq(text, a, b - 1))
             c == FirstOf(authority, 1, {":"})
             e == FirstOf(text, b, {"?", "#"})
         IN  UrlRecord(scheme,
                       OpaqueHost(SubSeq(authority, 1, c - 1)),
                       UrlPort(SubSeq(authority, c + 1, Len(authority)),
                               scheme),
                       SubSeq(text, b, e - 1))
    ELSE UrlRecord(scheme,
                   [ok |-> TRUE, hostname |-> <<>>],
                   [ok |-> TRUE, port |-> <<>>],
                   SubSeq(text, i, FirstOf(text, i, {"?", "#"}) - 1))

UrlConstructor(text) ==
    LET p == SchemeEnd(text)
        scheme == ToLower(SubSeq(text, 1, p - 1))
    IN  IF p = 0 THEN UrlFailure
        ELSE IF scheme \in SpecialSchemes THEN SpecialUrl(text, scheme, p + 1)
        ELSE OtherUrl(text, scheme, p + 1)

\* url.match(/^(https?:\/\/)?([^:\/]+)(:(\d+))?(\/.*)?$/): the groups 2, 4
\* and 5 of the match, or NoMatch. The host is the longest run without : and
\* /, the port the longest run of digits after a colon, the path the rest
\* from a slash on, without a line terminator.
NoMatch == [ok |-> FALSE]

RegexMatch(url) ==
    LET start == IF StartsWith(url, 1, <<"h", "t", "t", "p", ":", "/", "/">>) THEN 8
                 ELSE IF StartsWith(url, 1, <<"h", "t", "t", "p", "s", ":", "/", "/">>) THEN 9
                 ELSE 1
        p == FirstOf(url, start, {":", "/"})
        digits == ParseDigits(url, p + 1, 0)
        hasPort == p <= Len(url) /\ url[p] = ":" /\ digits.next > p + 1
        q == IF hasPort THEN digits.next ELSE p
        rest == SubSeq(url, q, Len(url))
    IN  IF /\ p > start
           /\ \/ rest = <<>>
              \/ /\ rest[1] = "/"
                 /\ \A i \in DOMAIN rest : rest[i] \notin {"\n", "\r"}
        THEN [ok |-> TRUE,
              host |-> SubSeq(url, start, p - 1),
              port |-> IF hasPort THEN SubSeq(url, p + 1, q - 1) ELSE <<>>,
              path |-> rest]
        ELSE NoMatch

\* A mutant of parseExistingUrl: the port is read from the text of the URL,
\* the default port of the scheme included.
parseExistingUrlKeepingPort(url) ==
    LET m == RegexMatch(url)
    IN  IF m.ok
        THEN [baseUrl |-> m.host, port |-> m.port, endpoint |-> m.path]
        ELSE [baseUrl |-> url, port |-> <<>>, endpoint |-> <<>>]

\* parseExistingUrl of the split form; an undefined url is the empty text.
parseExistingUrl(url) ==
    IF url = <<>>
    THEN [baseUrl |-> <<>>, port |-> <<>>, endpoint |-> <<>>]
    ELSE LET urlObj == UrlConstructor(url)
             match == RegexMatch(url)
         IN  IF urlObj.ok
             THEN [baseUrl |-> urlObj.hostname,
                   port |-> urlObj.port,
                   endpoint |-> urlObj.pathname]
             ELSE IF match.ok
             THEN [baseUrl |-> match.host,
                   port |-> match.port,
                   endpoint |-> match.path]
             ELSE [baseUrl |-> url, port |-> <<>>, endpoint |-> <<>>]


(***************************************************************************)
(* The composers and the parser, applied to hosts, ports and paths.        *)
(***************************************************************************)
Hosts ==
    {<<"l", "o", "c", "a", "l", "h", "o", "s", "t">>, <<"e", "x", "a", "m", "p", "l", "e", ".", "c", "o", "m">>, <<"E", "x", "a", "m", "p", "l", "e", ".", "c", "o", "m">>,
     <<"h", "o", "s", "t", ".", "d", "o", "c", "k", "e", "r", ".", "i", "n", "t", "e", "r", "n", "a", "l">>, <<"1", "2", "7", ".", "0", ".", "0", ".", "1">>}

\* 99999 is no port number: new URL throws on it.
Ports == {<<>>, <<"8", "0">>, <<"4", "4", "3">>, <<"8", "0", "8", "0">>, <<"9", "9", "9", "9", "9">>}

Paths ==
    {<<"/", "x">>, <<"/", "y">>, <<"/">>, <<"/", "r", "e", "m", "o", "t", "e", "-", "e", "x", "p", "e", "r", "i", "m", "e", "n", "t", "-", "l", "a", "b", "e", "l", "l", "i", "n", "g">>, <<"/", "x", "?", "q", "=", "1">>}

NotYet == [status |-> "none"]

\* The port of the environment configuration: a number, or null.
EnvPort(port) ==
    IF port = <<>> THEN Null ELSE Num(10 * ParseDigits(port, 1, 0).value)

UrlInit ==
    /\ urlArgs \in [baseUrl : Hosts, port : Ports, endpoint : Paths]
    /\ urlOut = [split |-> NotYet, fromEnv |-> NotYet, parsed |-> NotYet]

\* buildUrl(baseUrl, port, endpoint)
ComposeSplit ==
    /\ urlArgs # NotYet
    /\ urlOut.split = NotYet
    /\ urlOut' = [urlOut EXCEPT !.split =
            UrlReturned(buildUrl(urlArgs.baseUrl, urlArgs.port,
                                 urlArgs.endpoint))]
    /\ UNCHANGED urlArgs
    /\ UNCHANGED <<byIdVars, csvVars, formVars>>

\* buildUrlFromEnv(baseUrl, port, endpoint), with the host configured or not.
ComposeFromEnv(configured) ==
    /\ urlArgs # NotYet
    /\ urlOut.fromEnv = NotYet
    /\ urlOut' = [urlOut EXCEPT !.fromEnv =
            buildUrlFromEnv(IF configured THEN Str(urlArgs.baseUrl) ELSE Null,
                            EnvPort(urlArgs.port), urlArgs.endpoint)]
    /\ UNCHANGED urlArgs
    /\ UNCHANGED <<byIdVars, csvVars, formVars>>

\* parseExistingUrl, on the URL that buildUrl gave.
ParseBack ==
    /\ urlOut.split # NotYet
    /\ urlOut.parsed = NotYet
    /\ urlOut' = [urlOut EXCEPT !.parsed =
            [status |-> "returned",
             value |-> parseExistingUrl(urlOut.split.url)]]
    /\ UNCHANGED urlArgs
    /\ UNCHANGED <<byIdVars, csvVars, formVars>>

\* The composers are not in use.
UrlIdle ==
    /\ urlArgs = NotYet
    /\ urlOut = NotYet


(***************************************************************************)
(* RemoteExperimentUpsertForm, in its two versions: the split/single form  *)
(* (useSplitFields) and the path-only/single form (mode). A form is a      *)
(* record of the texts of its fields.                                      *)
(***************************************************************************)
\* a || b, for two strings
TextOr(a, b) == IF a = <<>> THEN b ELSE a

JsWhitespace == {" ", "\n", "\t", "\r"}

\* text.trim()
Trim(text) ==
    LET inked == {i \in DOMAIN text : text[i] \notin JsWhitespace}
    IN  IF inked = {} THEN <<>>
        ELSE SubSeq(text,
                    CHOOSE i \in inked : \A j \in inked : i <= j,
                    CHOOSE i \in inked : \A j \in inked : j <= i)

\* The values of DEFAULT_ENDPOINTS.
DEFAULT_ENDPOINTS ==
    <<<<"/", "r", "e", "m", "o", "t", "e", "-", "e", "x", "p", "e", "r", "i", "m", "e", "n", "t", "-", "e", "x", "t", "r", "a", "c", "t", "i", "o", "n", "-", "a", "n", "a", "l", "y", "s", "i", "s">>,
      <<"/", "r", "e", "m", "o", "t", "e", "-", "e", "x", "p", "e", "r", "i", "m", "e", "n", "t", "-", "l", "a", "b", "e", "l", "l", "i", "n", "g">>>>

\* The values of the endpoints the form offers, given the data of
\* endpointsQuery (undefined while the query is pending).
AvailableEndpoints(data) ==
    IF data.t = "array" /\ Len(data.items) > 0
    THEN data.items
    ELSE DEFAULT_ENDPOINTS

\* availableEndpoints[0]?.value || ""
FirstEndpoint(data) == AvailableEndpoints(data)[1]

\* envConfigQuery.data?.baseUrl !== null && ... !== undefined
HasEnvConfig(config) ==
    config.t = "object" /\ config.baseUrl.t \notin {"null", "undefined"}

EnvConfig(baseUrl, port) ==
    [t |-> "object", baseUrl |-> baseUrl, port |-> port]

\* A mutant of PayloadRejected: no payload is rejected.
PayloadNeverRejected(defaultPayload) == FALSE

\* The test that opens every onSubmit handler: a payload that is not blank
\* and that JSON.parse throws on.
PayloadRejected(defaultPayload) ==
    Trim(defaultPayload) # <<>> /\ ~JsonParse(defaultPayload).ok

InvalidJson == <<"defaultPayload", "Invalid JSON format">>

\* The effect that syncs the two forms of the split/single form, run on
\* mount and when useSplitFields or availableEndpoints changes.
SyncSplitAndSingle(useSplit, split, single, data) ==
    IF useSplit
    THEN IF single.url # <<>>
         THEN LET parsed == parseExistingUrl(single.url)
              IN  [split |->
                      [split EXCEPT
                          !.baseUrl = TextOr(parsed.baseUrl, <<"l", "o", "c", "a", "l", "h", "o", "s", "t">>),
                          !.port = TextOr(parsed.port, <<"8", "0", "0", "0">>),
                          !.endpoint = TextOr(parsed.endpoint,
                                              FirstEndpoint(data))],
                   single |-> single]
         ELSE [split |-> split, single |-> single]
    ELSE IF split.baseUrl # <<>> /\ split.endpoint # <<>>
         THEN [split |-> split,
               single |-> [single EXCEPT !.url =
                    buildUrl(split.baseUrl, split.port, split.endpoint)]]
         ELSE [split |-> split, single |-> single]

\* parseExistingUrl of the path-only form: the endpoint alone.
parseExistingUrlEndpoint(url) == [endpoint |-> parseExistingUrl(url).endpoint]

\* The effect that syncs the two forms of the path-only/single form.
SyncEndpointOnlyAndSingle(m, endpointOnly, single, data) ==
    IF m = "endpoint-only" /\ single.url # <<>>
    THEN [endpointOnly EXCEPT !.endpoint =
            TextOr(parseExistingUrlEndpoint(single.url).endpoint,
                   FirstEndpoint(data))]
    ELSE endpointOnly

\* The upsert mutation: idle, or the variables of its last call with the
\* state of that call.
Idle == [status |-> "idle"]

Mutate(url, defaultPayload) ==
    [status |-> "pending", url |-> url, defaultPayload |-> defaultPayload]

\* The form is on screen and no upsert is under way.
Editable(mutation) == mutation.status \in {"idle", "error"}

(***************************************************************************)
(* What the form is opened with, and what its user enters.                 *)
(***************************************************************************)
\* existingRemoteExperiment: its url, and its payload as getFormattedPayload
\* gives it.
Existing(url, payload) == [t |-> "object", url |-> url, payload |-> payload]

ExistingExperiments ==
    {Null,
     Existing(<<"h", "t", "t", "p", "s", ":", "/", "/", "e", "x", "a", "m", "p", "l", "e", ".", "c", "o", "m", "/", "y">>, <<"{", "\"", "a", "\"", ":", " ", "1", "}">>),
     Existing(<<"h", "t", "t", "p", ":", "/", "/", "l", "o", "c", "a", "l", "h", "o", "s", "t", ":", "8", "0", "8", "0", "/", "r", "e", "m", "o", "t", "e", "-", "e", "x", "p", "e", "r", "i", "m", "e", "n", "t", "-", "l", "a", "b", "e", "l", "l", "i", "n", "g">>, <<>>)}

EndpointsData == {[t |-> "array", items |-> <<<<"/", "c", "u", "s", "t", "o", "m">>>>]}

EnvConfigs ==
    {EnvConfig(Str(<<"l", "o", "c", "a", "l", "h", "o", "s", "t">>), Num(80000)),
     EnvConfig(Str(<<"e", "x", "a", "m", "p", "l", "e", ".", "c", "o", "m">>), Null),
     EnvConfig(Str(<<>>), Null),
     EnvConfig(Null, Null)}

BaseUrlEdits == {<<"e", "x", "a", "m", "p", "l", "e", ".", "c", "o", "m">>, <<>>}

PortEdits == {<<>>, <<"8", "0", "8", "0">>}

UrlEdits == {<<"h", "t", "t", "p", "s", ":", "/", "/", "e", "x", "a", "m", "p", "l", "e", ".", "c", "o", "m", "/", "y">>, <<"e", "x", "a", "m", "p", "l", "e", ".", "c", "o", "m", "/", "x">>}

PayloadEdits == {<<>>, <<" ">>, <<"{", "b", "a", "d">>}

\* The user changes at most this many fields.
MaxEdits == 2

NoForm == [t |-> "undefined"]

NoErrors == [split |-> {}, endpointOnly |-> {}, single |-> {}]

UrlOfExisting(existing) == IF existing = Null THEN <<>> ELSE existing.url

PayloadOfExisting(existing) ==
    IF existing = Null THEN <<>> ELSE existing.payload

\* The split/single form after its first render and its mount effect.
SplitFormInit ==
    \E existing \in ExistingExperiments :
    \E data \in {Undefined} \cup EndpointsData :
        LET parsedUrl == parseExistingUrl(UrlOfExisting(existing))
            synced == SyncSplitAndSingle(TRUE,
                [baseUrl |-> TextOr(parsedUrl.baseUrl, <<"l", "o", "c", "a", "l", "h", "o", "s", "t">>),
                 port |-> TextOr(parsedUrl.port, <<"8", "0", "0", "0">>),
                 endpoint |-> TextOr(parsedUrl.endpoint, FirstEndpoint(data)),
                 defaultPayload |-> PayloadOfExisting(existing)],
                [url |-> UrlOfExisting(existing),
                 defaultPayload |-> PayloadOfExisting(existing)],
                data)
        IN  /\ formVariant = "split"
            /\ mode = "split"
            /\ endpointsQuery = data
            /\ envConfigQuery = Undefined
            /\ formSplit = synced.split
            /\ formEndpointOnly = NoForm
            /\ formSingle = synced.single
            /\ fieldErrors = NoErrors
            /\ upsert = Idle
            /\ toasts = {}
            /\ edits = 0

\* The path-only/single form after its first render and its mount effect.
EndpointOnlyFormInit ==
    \E existing \in ExistingExperiments :
    \E data \in {Undefined} \cup EndpointsData :
    \E config \in {Undefined} \cup EnvConfigs :
        LET parsedUrl == parseExistingUrlEndpoint(UrlOfExisting(existing))
            single == [url |-> UrlOfExisting(existing),
                       defaultPayload |-> PayloadOfExisting(existing)]
            m == IF HasEnvConfig(config) THEN "endpoint-only" ELSE "single"
        IN  /\ formVariant = "endpoint-only"
            /\ mode = m
            /\ endpointsQuery = data
            /\ envConfigQuery = config
            /\ formSplit = NoForm
            /\ formEndpointOnly = SyncEndpointOnlyAndSingle(m,
                    [endpoint |-> TextOr(parsedUrl.endpoint,
                                         FirstEndpoint(data)),
                     defaultPayload |-> PayloadOfExisting(existing)],
                    single, data)
            /\ formSingle = single
            /\ fieldErrors = NoErrors
            /\ upsert = Idle
            /\ toasts = {}
            /\ edits = 0

FormInit == SplitFormInit \/ EndpointOnlyFormInit

\* No form is mounted.
FormIdle ==
    /\ formVariant = "none"
    /\ mode = "none"
    /\ endpointsQuery = Undefined
    /\ envConfigQuery = Undefined
    /\ formSplit = NoForm
    /\ formEndpointOnly = NoForm
    /\ formSingle = NoForm
    /\ fieldErrors = NoErrors
    /\ upsert = Idle
    /\ toasts = {}
    /\ edits = 0

(***************************************************************************)
(* The split/single form.                                                  *)
(***************************************************************************)
OnScreen == upsert.status # "success"

\* The switch between split fields and the full URL, with the effect its
\* change of useSplitFields runs.
ToggleSplitFields ==
    /\ formVariant = "split"
    /\ OnScreen
    /\ \E checked \in {mode # "split"} :
       \E synced \in {SyncSplitAndSingle(checked, formSplit, formSingle,
                                         endpointsQuery)} :
            /\ mode' = IF checked THEN "split" ELSE "single"
            /\ formSplit' = synced.split
            /\ formSingle' = synced.single
    /\ UNCHANGED <<formVariant, endpointsQuery, envConfigQuery,
                   formEndpointOnly, fieldErrors, upsert, toasts>>
    /\ UNCHANGED edits
    /\ UNCHANGED <<byIdVars, csvVars, urlVars>>

SplitFieldValues(field) ==
    CASE field = "baseUrl" -> BaseUrlEdits
      [] field = "port" -> PortEdits
      [] field = "endpoint" ->
            {AvailableEndpoints(endpointsQuery)[i] :
                i \in DOMAIN AvailableEndpoints(endpointsQuery)}
      [] field = "defaultPayload" -> PayloadEdits

\* The user changes one field of the split form.
EditSplit ==
    /\ formVariant = "split"
    /\ mode = "split"
    /\ OnScreen
    /\ edits < MaxEdits
    /\ edits' = edits + 1
    /\ \E field \in {"baseUrl", "port", "endpoint", "defaultPayload"} :
       \E value \in SplitFieldValues(field) :
            formSplit' = [formSplit EXCEPT ![field] = value]
    /\ UNCHANGED <<formVariant, mode, endpointsQuery, envConfigQuery,
                   formEndpointOnly, formSingle, fieldErrors, upsert, toasts>>
    /\ UNCHANGED <<byIdVars, csvVars, urlVars>>

\* The single form is the one on screen.
SingleShown ==
    \/ formVariant = "split" /\ mode = "single"
    \/ formVariant = "endpoint-only"
        /\ ~(mode = "endpoint-only" /\ HasEnvConfig(envConfigQuery))

\* The user changes one field of the single form.
EditSingle ==
    /\ SingleShown
    /\ OnScreen
    /\ edits < MaxEdits
    /\ edits' = edits + 1
    /\ \/ \E value \in UrlEdits :
            formSingle' = [formSingle EXCEPT !.url = value]
       \/ \E value \in PayloadEdits :
            formSingle' = [formSingle EXCEPT !.defaultPayload = value]
    /\ UNCHANGED <<formVariant, mode, endpointsQuery, envConfigQuery,
                   formSplit, formEndpointOnly, fieldErrors, upsert, toasts>>
    /\ UNCHANGED <<byIdVars, csvVars, urlVars>>

\* What RemoteExperimentSetupSchemaSplit rejects.
SplitSchemaErrors(data) ==
    (IF data.baseUrl = <<>>
     THEN {<<"baseUrl", "Base URL is required">>} ELSE {})
    \cup (IF data.endpoint = <<>>
          THEN {<<"endpoint", "Endpoint is required">>} ELSE {})

\* What RemoteExperimentSetupSchemaSingle rejects: z.string().url().
SingleSchemaErrors(data) ==
    IF UrlConstructor(data.url).ok THEN {} ELSE {<<"url", "Invalid URL">>}

\* handleSubmit(onSubmitSplit): the schema, then onSubmitSplit.
SubmitSplit ==
    /\ formVariant = "split"
    /\ mode = "split"
    /\ Editable(upsert)
    /\ IF SplitSchemaErrors(formSplit) # {}
       THEN /\ fieldErrors' =
                [fieldErrors EXCEPT !.split = SplitSchemaErrors(formSplit)]
            /\ UNCHANGED upsert
       ELSE IF PayloadRejected(formSplit.defaultPayload)
       THEN /\ fieldErrors' = [fieldErrors EXCEPT !.split = {InvalidJson}]
            /\ UNCHANGED upsert
       ELSE /\ fieldErrors' = [fieldErrors EXCEPT !.split = {}]
            /\ upsert' = Mutate(buildUrl(formSplit.baseUrl,
                                         TextOr(formSplit.port, <<>>),
                                         formSplit.endpoint),
                                formSplit.defaultPayload)
    /\ UNCHANGED <<formVariant, mode, endpointsQuery, envConfigQuery,
                   formSplit, formEndpointOnly, formSingle, toasts>>
    /\ UNCHANGED edits
    /\ UNCHANGED <<byIdVars, csvVars, urlVars>>

\* handleSubmit(onSubmitSingle): the schema, then onSubmitSingle.
SubmitSingle ==
    /\ SingleShown
    /\ Editable(upsert)
    /\ IF SingleSchemaErrors(formSingle) # {}
       THEN /\ fieldErrors' =
                [fieldErrors EXCEPT !.single = SingleSchemaErrors(formSingle)]
            /\ UNCHANGED upsert
       ELSE IF PayloadRejected(formSingle.defaultPayload)
       THEN /\ fieldErrors' = [fieldErrors EXCEPT !.single = {InvalidJson}]
            /\ UNCHANGED upsert
       ELSE /\ fieldErrors' = [fieldErrors EXCEPT !.single = {}]
            /\ upsert' = Mutate(formSingle.url, formSingle.defaultPayload)
    /\ UNCHANGED <<formVariant, mode, endpointsQuery, envConfigQuery,
                   formSplit, formEndpointOnly, formSingle, toasts>>
    /\ UNCHANGED edits
    /\ UNCHANGED <<byIdVars, csvVars, urlVars>>

(***************************************************************************)
(* The path-only/single form.                                              *)
(***************************************************************************)
\* The mode select, rendered when the environment is configured, with the
\* effect its change of mode runs.
SetMode ==
    /\ formVariant = "endpoint-only"
    /\ HasEnvConfig(envConfigQuery)
    /\ OnScreen
    /\ \E value \in {"endpoint-only", "single"} \ {mode} :
        /\ mode' = value
        /\ formEndpointOnly' = SyncEndpointOnlyAndSingle(value,
                formEndpointOnly, formSingle, endpointsQuery)
    /\ UNCHANGED <<formVariant, endpointsQuery, envConfigQuery, formSplit,
                   formSingle, fieldErrors, upsert, toasts>>
    /\ UNCHANGED edits
    /\ UNCHANGED <<byIdVars, csvVars, urlVars>>

\* The user changes one field of the path-only form.
EditEndpointOnly ==
    /\ formVariant = "endpoint-only"
    /\ mode = "endpoint-only"
    /\ HasEnvConfig(envConfigQuery)
    /\ OnScreen
    /\ edits < MaxEdits
    /\ edits' = edits + 1
    /\ \/ \E i \in DOMAIN AvailableEndpoints(endpointsQuery) :
            formEndpointOnly' = [formEndpointOnly EXCEPT !.endpoint =
                                    AvailableEndpoints(endpointsQuery)[i]]
       \/ \E value \in PayloadEdits :
            formEndpointOnly' =
                [formEndpointOnly EXCEPT !.defaultPayload = value]
    /\ UNCHANGED <<formVariant, mode, endpointsQuery, envConfigQuery,
                   formSplit, formSingle, fieldErrors, upsert, toasts>>
    /\ UNCHANGED <<byIdVars, csvVars, urlVars>>

\* What RemoteExperimentSetupSchemaEndpointOnly rejects.
EndpointOnlySchemaErrors(data) ==
    IF data.endpoint = <<>>
    THEN {<<"endpoint", "Endpoint is required">>} ELSE {}

\* A mutant of BaseUrlMissing: the handler goes on to compose the URL.
BaseUrlNeverMissing(config) == FALSE

\* !envConfigQuery.data?.baseUrl
BaseUrlMissing(config) == config.t # "object" \/ IsFalsy(config.baseUrl)

\* envConfigQuery.data.port || null
PortOrNull(config) == IF IsFalsy(config.port) THEN Null ELSE config.port

\* handleSubmit(onSubmitEndpointOnly): the schema, then onSubmitEndpointOnly.
SubmitEndpointOnly ==
    /\ formVariant = "endpoint-only"
    /\ mode = "endpoint-only"
    /\ HasEnvConfig(envConfigQuery)
    /\ Editable(upsert)
    /\ IF EndpointOnlySchemaErrors(formEndpointOnly) # {}
       THEN /\ fieldErrors' = [fieldErrors EXCEPT !.endpointOnly =
                    EndpointOnlySchemaErrors(formEndpointOnly)]
            /\ UNCHANGED <<upsert, toasts>>
       ELSE IF PayloadRejected(formEndpointOnly.defaultPayload)
       THEN /\ fieldErrors' =
                [fieldErrors EXCEPT !.endpointOnly = {InvalidJson}]
            /\ UNCHANGED <<upsert, toasts>>
       ELSE IF BaseUrlMissing(envConfigQuery)
       THEN /\ fieldErrors' = [fieldErrors EXCEPT !.endpointOnly = {}]
            /\ toasts' = toasts \cup
                {<<"Configuration error",
                   "Remote experiment base URL not configured">>}
            /\ UNCHANGED upsert
       ELSE \E fullUrl \in {buildUrlFromEnv(envConfigQuery.baseUrl,
                                            PortOrNull(envConfigQuery),
                                            formEndpointOnly.endpoint)} :
            /\ fieldErrors' = [fieldErrors EXCEPT !.endpointOnly = {}]
            /\ IF fullUrl.status = "returned"
               THEN /\ upsert' = Mutate(fullUrl.url,
                                        formEndpointOnly.defaultPayload)
                    /\ UNCHANGED toasts
               ELSE /\ toasts' = toasts \cup
                        {<<fullUrl.message,
                           "Please check your environment configuration.">>}
                    /\ UNCHANGED upsert
    /\ UNCHANGED <<formVariant, mode, endpointsQuery, envConfigQuery,
                   formSplit, formEndpointOnly, formSingle>>
    /\ UNCHANGED edits
    /\ UNCHANGED <<byIdVars, csvVars, urlVars>>

(***************************************************************************)
(* What both forms wait for.                                               *)
(***************************************************************************)
\* onSuccess of the upsert: the toast, and the form is closed.
UpsertSucceeds ==
    /\ upsert.status = "pending"
    /\ upsert' = [upsert EXCEPT !.status = "success"]
    /\ toasts' = toasts \cup
            {<<"Setup successfully", "Your changes have been saved.">>}
    /\ UNCHANGED <<formVariant, mode, endpointsQuery, envConfigQuery,
                   formSplit, formEndpointOnly, formSingle, fieldErrors>>
    /\ UNCHANGED edits
    /\ UNCHANGED <<byIdVars, csvVars, urlVars>>

\* onError of the upsert: the toast; the form stays.
UpsertFails ==
    /\ upsert.status = "pending"
    /\ upsert' = [status |-> "error"]
    /\ toasts' = toasts \cup
            {<<"Failed to setup",
               "Please check your URL and config and try again.">>}
    /\ UNCHANGED <<formVariant, mode, endpointsQuery, envConfigQuery,
                   formSplit, formEndpointOnly, formSingle, fieldErrors>>
    /\ UNCHANGED edits
    /\ UNCHANGED <<byIdVars, csvVars, urlVars>>

\* The endpoints query answers; availableEndpoints changes, and the sync
\* effect that depends on it runs again.
EndpointsLoaded ==
    /\ formVariant \in {"split", "endpoint-only"}
    /\ OnScreen
    /\ endpointsQuery = Undefined
    /\ \E data \in EndpointsData :
        /\ endpointsQuery' = data
        /\ IF formVariant = "split"
           THEN \E synced \in {SyncSplitAndSingle(mode = "split", formSplit,
                                                  formSingle, data)} :
                    /\ formSplit' = synced.split
                    /\ formSingle' = synced.single
                    /\ UNCHANGED formEndpointOnly
           ELSE /\ formEndpointOnly' = SyncEndpointOnlyAndSingle(mode,
                        formEndpointOnly, formSingle, data)
                /\ UNCHANGED <<formSplit, formSingle>>
    /\ UNCHANGED <<formVariant, mode, envConfigQuery, fieldErrors, upsert,
                   toasts>>
    /\ UNCHANGED edits
    /\ UNCHANGED <<byIdVars, csvVars, urlVars>>

\* The environment-configuration query answers; mode keeps the value its
\* first render gave it.
EnvConfigLoaded ==
    /\ formVariant = "endpoint-only"
    /\ OnScreen
    /\ envConfigQuery = Undefined
    /\ \E config \in EnvConfigs : envConfigQuery' = config
    /\ UNCHANGED <<formVariant, mode, endpointsQuery, formSplit,
                   formEndpointOnly, formSingle, fieldErrors, upsert, toasts>>
    /\ UNCHANGED edits
    /\ UNCHANGED <<byIdVars, csvVars, urlVars>>

(***************************************************************************)
(* The specifications                                                      *)
(***************************************************************************)
Init == ByIdInit /\ CsvIdle /\ UrlIdle /\ FormIdle

Next == ByIdNext

\* observationsRouter.byId, invoked again and again.
Spec == Init /\ [][Next]_vars

InitCsv == CsvInit /\ ByIdIdle /\ UrlIdle /\ FormIdle

NextCsv == Export

\* One call of exportExperimentToCsv on each list of run items.
SpecCsv == InitCsv /\ [][NextCsv]_vars

InitCsvCells == CsvCellsInit /\ ByIdIdle /\ UrlIdle /\ FormIdle

\* One call of exportExperimentToCsv on each list of run items that differ
\* in single cells.
SpecCsvCells == InitCsvCells /\ [][NextCsv]_vars

InitCsvJson == CsvJsonInit /\ ByIdIdle /\ UrlIdle /\ FormIdle

\* One call of exportExperimentToCsv on each list of run items that differ
\* in a JSON field.
SpecCsvJson == InitCsvJson /\ [][NextCsv]_vars

InitCsvMalformed == CsvMalformedInit /\ ByIdIdle /\ UrlIdle /\ FormIdle

\* One call of exportExperimentToCsv on each list of run items with
\* malformed data.
SpecCsvMalformed == InitCsvMalformed /\ [][NextCsv]_vars

InitUrl == UrlInit /\ ByIdIdle /\ CsvIdle /\ FormIdle

NextUrl ==
    \/ ComposeSplit
    \/ \E configured \in BOOLEAN : ComposeFromEnv(configured)
    \/ ParseBack

\* The composers and the parser applied to each host, port and path.
SpecUrl == InitUrl /\ [][NextUrl]_vars

\* The remote-experiment form, in either of its two versions.
InitForm == FormInit /\ ByIdIdle /\ CsvIdle /\ UrlIdle

NextForm ==
    \/ ToggleSplitFields
    \/ EditSplit
    \/ EditSingle
    \/ SubmitSplit
    \/ SubmitSingle
    \/ SetMode
    \/ EditEndpointOnly
    \/ SubmitEndpointOnly
    \/ UpsertSucceeds
    \/ UpsertFails
    \/ EndpointsLoaded
    \/ EnvConfigLoaded

SpecForm == InitForm /\ [][NextForm]_vars

(***************************************************************************)
(* Properties of observationsRouter.byId                                   *)
(***************************************************************************)
Calls(backend) == {i \in DOMAIN calls : calls[i].backend = backend}

ThrewAt(i) == calls[i].outcome.kind = "threw"

ReturnedAt(i) == calls[i].outcome.kind = "returned"

\* The message holds the given identifier.
Names(message, id) == \E i \in DOMAIN message : message[i] = id

\* C1: when the events-table lookup rejects with a not-found error, the legacy
\* lookup is the next call and receives the very query options the events-table
\* lookup received; when it rejects with any other error, the invocation issues
\* no legacy lookup.
C1_FallbackOnlyOnNotFound ==
    \A i \in Calls("primary") :
        ThrewAt(i) =>
            IF calls[i].outcome.error.cls = "LangfuseNotFoundError"
            THEN /\ i + 1 \in Calls("legacy")
                 /\ calls[i + 1].opts = calls[i].opts
                 /\ calls[i].opts = MakeQueryOpts(input)
            ELSE Calls("legacy") = {}

C1_Witness ==
    /\ flag = "true"
    /\ Len(calls) = 2
    /\ ThrewAt(1)
    /\ calls[1].outcome.error.cls = "LangfuseNotFoundError"
    /\ calls[2].backend = "legacy"

\* C2: a successful result is always built from a record that a lookup
\* returned, and an invocation whose last lookup returned null or undefined
\* ends with a not-found error.
C2_NoSuccessWithoutRecord ==
    /\ result.status = "ok" =>
          /\ calls # <<>>
          /\ ReturnedAt(Len(calls))
          /\ ~Falsy(calls[Len(calls)].outcome.value)
          /\ result.value = Shape(calls[Len(calls)].outcome.value, input)
    /\ (calls # <<>> /\ ReturnedAt(Len(calls))
            /\ Falsy(calls[Len(calls)].outcome.value)) =>
          /\ pc = "done"
          /\ result.status = "error"
          /\ result.error.cls = "LangfuseNotFoundError"

C2_Witness ==
    /\ Len(calls) = 2
    /\ ReturnedAt(2)
    /\ calls[2].outcome.value = Null
    /\ result.status = "error"

\* C3: an error of the events-table lookup that is not a not-found, and every
\* error of the legacy lookup, ends the invocation and is itself the error the
\* caller receives.
C3_ErrorsPropagateUnchanged ==
    \A i \in DOMAIN calls :
        (/\ ThrewAt(i)
         /\ ~(calls[i].backend = "primary"
                /\ calls[i].outcome.error.cls = "LangfuseNotFoundError")) =>
            /\ pc = "done"
            /\ result = [status |-> "error", error |-> calls[i].outcome.error]

C3_Witness ==
    /\ Len(calls) = 2
    /\ ThrewAt(2)
    /\ calls[2].outcome.error.cls = "LangfuseNotFoundError"
    /\ result.status = "error"
    /\ result.error.raisedBy = "legacy"

\* C4: with the flag not enabled, an invocation issues no events-table lookup
\* and exactly one legacy lookup.
C4_FlagDisabledGoesToLegacy ==
    (flag # "true" /\ pc # "idle") =>
        /\ Calls("primary") = {}
        /\ Cardinality(Calls("legacy")) = 1

C4_Witness ==
    /\ flag = "false"
    /\ pc = "done"
    /\ Len(calls) = 1
    /\ calls[1].backend = "legacy"

\* C5: an invocation issues at most two lookups, at most one to each backend,
\* and a lookup is issued only when every earlier one has settled.
C5_AtMostTwoSequentialLookups ==
    /\ Len(calls) <= 2
    /\ Cardinality(Calls("primary")) <= 1
    /\ Cardinality(Calls("legacy")) <= 1
    /\ \A i \in DOMAIN calls : i < Len(calls) => calls[i].outcome # Pending
    /\ pc = "done" => \A i \in DOMAIN calls : calls[i].outcome # Pending

C5_Witness ==
    /\ pc = "done"
    /\ Len(calls) = 2
    /\ calls[1].backend = "primary"
    /\ calls[2].backend = "legacy"

\* The error byId raises itself, when its lookups gave no record.
RaisedNotFound == result.status = "error" /\ result.error.raisedBy = "byId"

\* C6 as stated: the not-found error byId raises names the requested
\* observation id and the project id.
C6_Original ==
    RaisedNotFound =>
        /\ Names(result.error.message, input.observationId)
        /\ Names(result.error.message, input.projectId)

\* C6, amended: the not-found error byId raises is a LangfuseNotFoundError
\* with the one fixed message "Observation not found within authorized
\* project", which names neither the observation id nor the project id.
C6_FixedNotFoundMessage ==
    RaisedNotFound =>
        /\ result.error.cls = "LangfuseNotFoundError"
        /\ result.error.message =
              <<"Observation not found within authorized project">>
        /\ ~Names(result.error.message, input.observationId)
        /\ ~Names(result.error.message, input.projectId)

C6_Witness ==
    /\ RaisedNotFound
    /\ input.observationId = "obs2"
    /\ input.projectId = "proj2"

\* The events-table lookup of this invocation rejected with a not-found.
PrimaryRaisedNotFound ==
    \E i \in Calls("primary") :
        ThrewAt(i) /\ calls[i].outcome.error.cls = "LangfuseNotFoundError"

\* The events-table lookup of this invocation resolved, with a record or
\* with nothing.
PrimaryResolved == \E i \in Calls("primary") : ReturnedAt(i)

PrimaryResolvedEmpty ==
    \E i \in Calls("primary") :
        ReturnedAt(i) /\ calls[i].outcome.value \in {Null, Undefined}

\* C24: the legacy lookup is issued if and only if the flag is not enabled
\* or the events-table lookup rejected with a not-found; when the
\* events-table lookup resolves, with a record or with nothing, the legacy
\* lookup is not consulted, and an empty result leads at once to the
\* not-found error of byId.
C24_LegacyIffDisabledOrNotFound ==
    calls # <<>> =>
        /\ Calls("legacy") # {}
                <=> (~EventsTableEnabled \/ PrimaryRaisedNotFound)
        /\ PrimaryResolved => Calls("legacy") = {}
        /\ PrimaryResolvedEmpty =>
                /\ pc = "done"
                /\ RaisedNotFound
                /\ result.error.cls = "LangfuseNotFoundError"

\* The events table answered with nothing: byId raised its not-found and
\* the legacy table was never asked.
C24_Witness ==
    /\ EventsTableEnabled
    /\ PrimaryResolvedEmpty
    /\ Calls("legacy") = {}
    /\ RaisedNotFound

(***************************************************************************)
(* Properties of exportExperimentToCsv                                     *)
(***************************************************************************)
\* The export has been called on a non-empty list.
Exported == csvPc = "exported" /\ runItems # <<>>

\* The score names that occur in the score mapping of some run item.
NamesOccurring ==
    UNION {Range(ScoreKeys(runItems[i])) :
            i \in {j \in DOMAIN runItems : runItems[j].scores.t = "object"}}

\* The cell holds the text, as it stands or between quotes with its quotes
\* doubled.
Reads(cell, text) == cell = text \/ cell = Quoted(text)

\* The columns of the header record after the base columns.
ScoreColumns == (Len(baseHeaders) + 1)..Len(csv.records[1])

\* The score name of a score column, read from the header record.
NameAt(c) ==
    CHOOSE n \in NamesOccurring : Reads(csv.records[1][c], ScoreHeader(n))

\* Whether the item has an entry for the score name, and the entry.
HasScore(item, n) ==
    item.scores.t = "object" /\ n \in Range(ScoreKeys(item))

EntryOf(item, n) ==
    item.scores.props[CHOOSE k \in DOMAIN item.scores.props :
                            item.scores.props[k].key = n].value

IsNumericAggregate(d) ==
    d.t = "object" /\ d.type = "NUMERIC" /\ d.average.t = "number"

IsCategoricalAggregate(d) ==
    /\ d.t = "object"
    /\ d.type = "CATEGORICAL"
    /\ d.valueCounts.t = "array"
    /\ d.valueCounts.items # <<>>

\* C7: the header record of a non-empty export is the 11 base columns followed
\* by exactly one "Score: <name>" column for each score name that occurs in
\* some run item, in ascending order of the names and with no other column;
\* there is one record for each run item and each record has as many cells as
\* the header; without any score the header is the base columns.
C7_HeaderAndRowShape ==
    Exported =>
        LET header == csv.records[1]
        IN  /\ csv.status = "returned"
            /\ Len(header) = 11 + Cardinality(NamesOccurring)
            /\ \A i \in 1..11 : header[i] = baseHeaders[i]
            /\ \A n \in NamesOccurring :
                    Cardinality({c \in ScoreColumns :
                                    Reads(header[c], ScoreHeader(n))}) = 1
            /\ \A c \in ScoreColumns :
                    \E n \in NamesOccurring : Reads(header[c], ScoreHeader(n))
            /\ \A c, d \in ScoreColumns :
                    c < d => TextLess(NameAt(c), NameAt(d))
            /\ Len(csv.records) = Len(runItems) + 1
            /\ \A r \in DOMAIN csv.records : Len(csv.records[r]) = Len(header)
            /\ NamesOccurring = {} => header = baseHeaders

C7_Witness ==
    /\ Exported
    /\ Len(runItems) = 2
    /\ runItems[1].scores = Undefined
    /\ Cardinality(NamesOccurring) = 2
    /\ Len(csv.records[1]) = 13
    /\ Len(csv.records[2]) = 13

\* C8: the export of an empty list returns the empty string, whatever the
\* run name.
C8_EmptyInputEmptyString ==
    (csvPc = "exported" /\ runItems = <<>>) =>
        csv.status = "returned" /\ csv.text = <<>>

C8_Witness ==
    /\ csvPc = "exported"
    /\ runItems = <<>>
    /\ runName = <<"r", "u", "n", " ", "2">>
    /\ csv.text = <<>>

\* C9: in the column of a score name, the cell of a run item whose score is a
\* NUMERIC aggregate is the text of the average (0.9 gives "0.9", 0 gives "0",
\* 2.5 gives "2.5"), and the cell of a run item with no entry for the score is
\* empty.
C9_NumericAndMissingScoreCells ==
    Exported =>
        \A r \in DOMAIN runItems : \A c \in ScoreColumns :
            LET item == runItems[r]
                cell == csv.records[r + 1][c]
            IN  /\ ~HasScore(item, NameAt(c)) => cell = <<>>
                /\ (HasScore(item, NameAt(c))
                        /\ IsNumericAggregate(EntryOf(item, NameAt(c)))) =>
                      LET average == EntryOf(item, NameAt(c)).average
                      IN  /\ cell = NumberToString(average)
                          /\ average = Num(9) => cell = <<"0", ".", "9">>
                          /\ average = Num(0) => cell = <<"0">>
                          /\ average = Num(25) => cell = <<"2", ".", "5">>

C9_Witness ==
    /\ Exported
    /\ Len(runItems) = 2
    /\ runItems[1].scores =
          Obj(<<Prop(<<"a", "c", "c", "u", "r", "a", "c", "y">>,
                     NumericAggregate(Num(9)))>>)
    /\ runItems[2].scores = Undefined
    /\ Len(csv.records[1]) = 12
    /\ csv.records[1][12] = ScoreHeader(<<"a", "c", "c", "u", "r", "a", "c", "y">>)
    /\ csv.records[2][12] = <<"0", ".", "9">>
    /\ csv.records[3][12] = <<>>

\* C10: in the column of a score name, the cell of a run item whose score is a
\* CATEGORICAL aggregate with a value-count distribution is the label of an
\* entry whose count is the greatest of the distribution.
C10_MostFrequentCategory ==
    Exported =>
        \A r \in DOMAIN runItems : \A c \in ScoreColumns :
            LET item == runItems[r]
                cell == csv.records[r + 1][c]
            IN  (HasScore(item, NameAt(c))
                    /\ IsCategoricalAggregate(EntryOf(item, NameAt(c)))) =>
                  LET counts == EntryOf(item, NameAt(c)).valueCounts.items
                  IN  \E k \in DOMAIN counts :
                        /\ \A j \in DOMAIN counts :
                                counts[j].count <= counts[k].count
                        /\ Reads(cell, counts[k].value)

\* The score entry an item has in a score column, or Undefined.
ScoreAt(item, c) ==
    IF HasScore(item, NameAt(c)) THEN EntryOf(item, NameAt(c)) ELSE Undefined

\* The score entry is an aggregate the export knows: a NUMERIC one with an
\* average or a CATEGORICAL one with value counts.
KnownAggregate(d) ==
    /\ d.t = "object"
    /\ "type" \in DOMAIN d
    /\ \/ d.type = "NUMERIC" /\ "average" \in DOMAIN d
       \/ d.type = "CATEGORICAL" /\ "valueCounts" \in DOMAIN d

Primitive(d) == d.t \in {"number", "string", "boolean"}

\* C11 as the spec states it: a score entry that is neither a NUMERIC
\* aggregate with an average nor a CATEGORICAL aggregate with value counts,
\* an object of another type or a bare number or string, gives an empty cell.
C11_Original ==
    Exported =>
        \A r \in DOMAIN runItems : \A c \in ScoreColumns :
            ~KnownAggregate(ScoreAt(runItems[r], c)) =>
                csv.records[r + 1][c] = <<>>

\* C11, amended: a score entry that is an object but neither a NUMERIC
\* aggregate with an average nor a CATEGORICAL aggregate with value counts
\* gives an empty cell; a bare number, string or boolean gives its own text
\* (0.5 gives "0.5", "pass" gives "pass", false gives "false"), between
\* quotes when the text holds a comma, a quote or a line break.
C11_UnknownObjectsBlankPrimitivesAsText ==
    Exported =>
        \A r \in DOMAIN runItems : \A c \in ScoreColumns :
            LET d == ScoreAt(runItems[r], c)
                cell == csv.records[r + 1][c]
            IN  /\ (~Primitive(d) /\ ~KnownAggregate(d)) => cell = <<>>
                /\ Primitive(d) => Reads(cell, JsString(d))
                /\ d = Num(5) => cell = <<"0", ".", "5">>
                /\ d = Num(0) => cell = <<"0">>
                /\ d.t = "string" => Reads(cell, d.s)
                /\ d = Bool(FALSE) => cell = <<"f", "a", "l", "s", "e">>

C11_Witness ==
    /\ Exported
    /\ Len(runItems) = 2
    /\ Len(csv.records[1]) = 12
    /\ ScoreAt(runItems[1], 12) = Num(5)
    /\ csv.records[2][12] = <<"0", ".", "5">>
    /\ ScoreAt(runItems[2], 12) = [t |-> "object", type |-> "BOOLEAN",
                                   average |-> Num(10)]
    /\ csv.records[3][12] = <<>>

\* The columns of the four JSON fields and the field of a run item that a
\* JSON column shows.
JsonColumns == 5..8

FieldAt(item, c) ==
    CASE c = 5 -> item.datasetItemInput
      [] c = 6 -> item.datasetItemExpectedOutput
      [] c = 7 -> item.traceOutput
      [] c = 8 -> item.traceMetadata

\* Every quote of the text is one of two quotes in a row.
RECURSIVE QuotesPaired(_)
QuotesPaired(text) ==
    IF text = <<>> THEN TRUE
    ELSE IF Head(text) # Quote THEN QuotesPaired(Tail(text))
    ELSE Len(text) >= 2 /\ text[2] = Quote /\ QuotesPaired(Tail(Tail(text)))

\* The cell is wrapped in double quotes and the quotes inside are doubled.
WrappedInQuotes(cell) ==
    /\ Len(cell) >= 2
    /\ cell[1] = Quote
    /\ cell[Len(cell)] = Quote
    /\ QuotesPaired(SubSeq(cell, 2, Len(cell) - 1))

\* C12 as the spec states it: each of the four JSON columns is emitted
\* wrapped in double quotes with the quotes inside doubled, whatever the
\* field holds, null, undefined and the empty string included.
C12_Original ==
    Exported =>
        \A r \in DOMAIN runItems : \A c \in JsonColumns :
            WrappedInQuotes(csv.records[r + 1][c])

\* C12, amended: each of the four JSON columns is emitted wrapped in double
\* quotes with the quotes inside doubled when the field holds anything but
\* null, undefined or the empty string, also when its text has no comma,
\* quote or line break; a field that is null, undefined or the empty string
\* is emitted as an empty cell without quotes.
C12_JsonCellsQuotedUnlessEmpty ==
    Exported =>
        \A r \in DOMAIN runItems : \A c \in JsonColumns :
            LET value == FieldAt(runItems[r], c)
                cell == csv.records[r + 1][c]
            IN  IF value \in {Null, Undefined, Str(<<>>)}
                THEN cell = <<>>
                ELSE WrappedInQuotes(cell)

C12_Witness ==
    /\ Exported
    /\ Len(runItems) = 2
    /\ runItems[1].datasetItemInput = Null
    /\ csv.records[2][5] = <<>>
    /\ runItems[2].datasetItemInput = Str(<<"h", "e", "l", "l", "o">>)
    /\ csv.records[3][5] = <<Quote, "h", "e", "l", "l", "o", Quote>>
    /\ runItems[2].traceMetadata = Null
    /\ csv.records[3][8] = <<>>

\* The text holds a comma, a double quote or a line break.
HasSpecial(text) == \E i \in DOMAIN text : text[i] \in {",", "\"", "\n"}

\* The text with one quote of every two in a row taken out.
RECURSIVE Undoubled(_)
Undoubled(text) ==
    IF text = <<>> THEN <<>>
    ELSE IF Head(text) = Quote /\ Len(text) >= 2 /\ text[2] = Quote
    THEN <<Quote>> \o Undoubled(Tail(Tail(text)))
    ELSE <<Head(text)>> \o Undoubled(Tail(text))

\* The cell is the text as it stands when the text has no comma, quote or
\* line break, and the text between quotes with its quotes doubled when it
\* has one.
Encodes(cell, text) ==
    IF HasSpecial(text)
    THEN /\ WrappedInQuotes(cell)
         /\ Undoubled(SubSeq(cell, 2, Len(cell) - 1)) = text
    ELSE cell = text

\* The cell encodes some text in that way.
WellEncoded(cell) ==
    \/ ~HasSpecial(cell)
    \/ /\ WrappedInQuotes(cell)
       /\ HasSpecial(Undoubled(SubSeq(cell, 2, Len(cell) - 1)))

\* The text of a run item under one of the id columns.
IdText(v) == IF v.t = "object" /\ v.id.t = "string" THEN v.id.s ELSE <<>>

\* C13: every header cell and every data cell outside the four JSON columns
\* is the cell's text between double quotes with its quotes doubled if and
\* only if the text holds a comma, a double quote or a line break, and the
\* text as it stands otherwise.
C13_QuotedIffSpecialCharacter ==
    Exported =>
        LET header == csv.records[1]
        IN  /\ \A i \in 1..11 : Encodes(header[i], baseHeaders[i])
            /\ \A c \in ScoreColumns :
                    \E n \in NamesOccurring :
                        Encodes(header[c], ScoreHeader(n))
            /\ \A r \in DOMAIN runItems :
                LET item == runItems[r]
                    record == csv.records[r + 1]
                IN  /\ \A c \in DOMAIN record \ JsonColumns :
                            WellEncoded(record[c])
                    /\ Encodes(record[1], item.datasetItemId.s)
                    /\ Encodes(record[3], IdText(item.trace))
                    /\ Encodes(record[4], IdText(item.observation))
                    /\ \A c \in ScoreColumns :
                            ScoreAt(item, c).t = "string" =>
                                Encodes(record[c], ScoreAt(item, c).s)

C13_Witness ==
    /\ Exported
    /\ Len(runItems) = 2
    /\ runItems[1].datasetItemId = Str(<<"a", Quote, "b">>)
    /\ csv.records[2][1] = <<Quote, "a", Quote, Quote, "b", Quote>>
    /\ runItems[2].datasetItemId = Str(<<"i", "t", "e", "m", "1">>)
    /\ csv.records[3][1] = <<"i", "t", "e", "m", "1">>
    /\ NamesOccurring = {<<"n", "\n", "l">>}
    /\ csv.records[1][12] =
          <<Quote, "S", "c", "o", "r", "e", ":", " ", "n", "\n", "l", Quote>>

\* C14: exportExperimentToCsv raises no error, whatever the run items:
\* a createdAt that is no valid date, a cost without the numeric conversion,
\* IO or metadata that cannot be serialized and a score of an unknown shape
\* give blank or best-effort cells, and the call returns a CSV text.
C14_NeverRaises ==
    csvPc = "exported" => csv.status = "returned"

\* The malformed data of a row that the export does turn into text: IO that
\* cannot be serialized, a score of an unknown shape, a cost of 0 that is no
\* Decimal.
C14_DegradedRows ==
    /\ Exported
    /\ csv.status = "returned"
    /\ Len(runItems) = 2
    /\ runItems[1].traceMetadata = Cyclic
    /\ runItems[2].scores # Undefined
    /\ csv.records[3][12] = <<>>

\* The text a JSON cell holds: what stands between its quotes, with the
\* doubled quotes single again.
CellText(cell) ==
    IF cell = <<>> THEN <<>> ELSE Undoubled(SubSeq(cell, 2, Len(cell) - 1))

\* C15: each of the four JSON fields is normalized by itself before it is
\* quoted: a string that decodes as JSON gives the compact serialization of
\* the decoded value, a structured value that is no string gives its compact
\* serialization, a string that does not decode gives the string itself, and
\* a value that can be neither decoded nor serialized gives its raw string
\* conversion.
C15_JsonFieldNormalization ==
    Exported =>
        \A r \in DOMAIN runItems : \A c \in JsonColumns :
            LET value == FieldAt(runItems[r], c)
                text == CellText(csv.records[r + 1][c])
            IN  /\ (value.t = "string" /\ JsonParse(value.s).ok) =>
                        text = Serialize(JsonParse(value.s).value)
                /\ (value.t = "string" /\ ~JsonParse(value.s).ok) =>
                        text = value.s
                /\ (value.t \in {"object", "array", "number", "boolean"}
                        /\ ~Unserializable(value)) =>
                        text = Serialize(value)
                /\ Unserializable(value) => text = JsString(value)
                /\ value = Str(<<"[", "1", ",", " ", "2", "]">>) =>
                        text = <<"[", "1", ",", "2", "]">>
                /\ value = Str(<<"{", "b", "a", "d">>) =>
                        text = <<"{", "b", "a", "d">>
                /\ value = Obj(<<Prop(<<"q">>, Num(10))>>) =>
                        text = <<"{", Quote, "q", Quote, ":", "1", "}">>
                /\ value = Obj(<<Prop(<<"s", "e", "l", "f">>, Cyclic)>>) =>
                        text = <<"[", "o", "b", "j", "e", "c", "t", " ",
                                 "O", "b", "j", "e", "c", "t", "]">>

C15_Witness ==
    /\ Exported
    /\ Len(runItems) = 2
    /\ runItems[1].datasetItemInput = Str(<<"{", "b", "a", "d">>)
    /\ csv.records[2][5] = <<Quote, "{", "b", "a", "d", Quote>>
    /\ runItems[1].traceOutput = Str(<<"[", "1", ",", " ", "2", "]">>)
    /\ csv.records[2][7] = <<Quote, "[", "1", ",", "2", "]", Quote>>
    /\ runItems[2].traceMetadata = Obj(<<Prop(<<"s", "e", "l", "f">>, Cyclic)>>)
    /\ csv.records[3][8] =
          <<Quote, "[", "o", "b", "j", "e", "c", "t", " ",
            "O", "b", "j", "e", "c", "t", "]", Quote>>
    /\ csv.records[3][5] = <<Quote, "{", Quote, Quote, "q", Quote, Quote,
                             ":", "1", "}", Quote>>

\* The pieces of a text between the separators that stand outside quotes,
\* as a CSV reader splits a text into records and a record into cells.
Cuts(text, sep) ==
    {i \in DOMAIN text :
        /\ text[i] = sep
        /\ Cardinality({j \in 1..(i - 1) : text[j] = Quote}) % 2 = 0}

Pieces(text, sep) ==
    LET cuts == Cuts(text, sep)
        n == Cardinality(cuts)
        Nth(k) == IF k = 0 THEN 0
                  ELSE IF k = n + 1 THEN Len(text) + 1
                  ELSE CHOOSE p \in cuts :
                            Cardinality({q \in cuts : q < p}) = k - 1
    IN  [k \in 1..(n + 1) |-> SubSeq(text, Nth(k - 1) + 1, Nth(k) - 1)]

RecordsOf(text) == Pieces(text, Newline)

CellsOf(record) == Pieces(record, Comma)

\* C16: the text returned for n >= 1 run items reads as the header record
\* followed by exactly n data records, the record after the header for the
\* first item and so on in the order of the input, each built from its own
\* item only; the records are joined by single line breaks and no line
\* break ends the text.
C16_OneRecordPerItemInOrder ==
    Exported =>
        \E lines \in {RecordsOf(csv.text)} :
            /\ Len(lines) = Len(runItems) + 1
            /\ \A k \in DOMAIN lines : lines[k] # <<>>
            /\ csv.text[Len(csv.text)] # Newline
            /\ CellsOf(lines[1]) = csv.records[1]
            /\ \A r \in DOMAIN runItems :
                \E cells \in {CellsOf(lines[r + 1])} :
                \E alone \in {exportExperimentToCsv(<<runItems[r]>>,
                                                     runName).records} :
                    /\ cells = csv.records[r + 1]
                    /\ Encodes(cells[1], runItems[r].datasetItemId.s)
                    /\ SubSeq(cells, 1, 11) = SubSeq(alone[2], 1, 11)
                    /\ \A c \in ScoreColumns :
                        IF HasScore(runItems[r], NameAt(c))
                        THEN \E d \in (Len(baseHeaders) + 1)..Len(alone[1]) :
                                /\ alone[1][d] = csv.records[1][c]
                                /\ alone[2][d] = cells[c]
                        ELSE cells[c] = <<>>

C16_Witness ==
    /\ Exported
    /\ Len(runItems) = 2
    /\ runItems[1].datasetItemId = Str(<<"l", "i", "n", "e", "1", "\n",
                                         "l", "i", "n", "e", "2">>)
    /\ runItems[2].datasetItemId = Str(<<"i", "t", "e", "m", "2">>)
    /\ Len(RecordsOf(csv.text)) = 3
    /\ CellsOf(RecordsOf(csv.text)[2])[1] =
          <<Quote, "l", "i", "n", "e", "1", "\n", "l", "i", "n", "e", "2",
            Quote>>
    /\ CellsOf(RecordsOf(csv.text)[3])[1] = <<"i", "t", "e", "m", "2">>

\* A field as a reader of CSV takes it: a field that opens with a quote
\* closes with one and holds doubled quotes only, and gives the text between
\* with the quotes undoubled; any other field holds no quote, comma or line
\* break (a line feed or a carriage return) and gives itself.
ReadsAs(field, text) ==
    IF field # <<>> /\ field[1] = Quote
    THEN /\ WrappedInQuotes(field)
         /\ Undoubled(SubSeq(field, 2, Len(field) - 1)) = text
    ELSE /\ \A i \in DOMAIN field : field[i] \notin {Quote, Comma, "\n", "\r"}
         /\ field = text

\* The text computed for the cell of a column: the formatted JSON of a JSON
\* column, the value of the row for any other.
ComputedCell(item, scoreNames, headers, c) ==
    IF c \in JsonColumns
    THEN formatJsonValue(FieldAt(item, c))
    ELSE Row(item, scoreNames)[headers[c]]

\* C25: the text returned for n >= 1 run items is well-formed CSV: read with
\* the standard quoting rules it has n + 1 records, every record has as many
\* fields as the header, and every field reads as the text computed for its
\* cell.
C25_WellFormedCsv ==
    Exported =>
        \E lines \in {RecordsOf(csv.text)} :
        \E scoreNames \in {CollectScoreNames(runItems, <<>>)} :
        \E headers \in {allHeaders(scoreNames)} :
            /\ Len(lines) = Len(runItems) + 1
            /\ \E cells \in {CellsOf(lines[1])} :
                /\ Len(cells) = Len(headers)
                /\ \A c \in DOMAIN headers : ReadsAs(cells[c], headers[c])
            /\ \A r \in DOMAIN runItems :
                \E cells \in {CellsOf(lines[r + 1])} :
                    /\ Len(cells) = Len(headers)
                    /\ \A c \in DOMAIN headers :
                        ReadsAs(cells[c],
                                ComputedCell(runItems[r], scoreNames,
                                             headers, c))

(***************************************************************************)
(* Properties of the URL composers and of the parser                       *)
(***************************************************************************)
\* The URL has been composed from the split fields and parsed back.
ParsedBack == urlArgs # NotYet /\ urlOut.parsed # NotYet

Triple(host, port, path) ==
    [baseUrl |-> host, port |-> port, endpoint |-> path]

\* The default port of the scheme that buildUrl gives a host.
DefaultPortFor(host) ==
    IF host = <<"l", "o", "c", "a", "l", "h", "o", "s", "t">>
    THEN <<"8", "0">>
    ELSE <<"4", "4", "3">>

\* The host is in lower case and the path has neither query nor fragment.
PlainHostAndPath(args) ==
    /\ \A i \in DOMAIN args.baseUrl : args.baseUrl[i] \notin Range(UpperChars)
    /\ \A i \in DOMAIN args.endpoint : args.endpoint[i] \notin {"?", "#"}

SchemeOf(url) == SubSeq(url, 1, FirstOf(url, 1, {":"}) - 1)

AfterScheme(url) == SubSeq(url, FirstOf(url, 1, {":"}) + 3, Len(url))

LocalAliases ==
    {<<"l", "o", "c", "a", "l", "h", "o", "s", "t">>,
     <<"h", "o", "s", "t", ".", "d", "o", "c", "k", "e", "r", ".", "i", "n",
       "t", "e", "r", "n", "a", "l">>}

Http == <<"h", "t", "t", "p">>

Https == <<"h", "t", "t", "p", "s">>

\* The URL is scheme://host[:port]path of the arguments, with :port exactly
\* when the port is not empty.
WellComposed(url) ==
    /\ SchemeOf(url) \in {Http, Https}
    /\ SubSeq(url, Len(SchemeOf(url)) + 1, Len(SchemeOf(url)) + 3)
          = <<":", "/", "/">>
    /\ AfterScheme(url) =
          IF urlArgs.port = <<>>
          THEN urlArgs.baseUrl \o urlArgs.endpoint
          ELSE urlArgs.baseUrl \o <<":">> \o urlArgs.port \o urlArgs.endpoint

BuiltSplit == urlArgs # NotYet /\ urlOut.split # NotYet

BuiltFromEnv == urlArgs # NotYet /\ urlOut.fromEnv.status = "returned"

\* C19 as the spec states it: a composed URL is scheme://host[:port]path
\* with :port exactly when the port is not empty, the scheme is http only
\* for a local alias and https for every other host, and buildUrl and
\* buildUrlFromEnv give the same host the same scheme.
C19_Original ==
    /\ BuiltSplit =>
          /\ WellComposed(urlOut.split.url)
          /\ SchemeOf(urlOut.split.url) = Http =>
                urlArgs.baseUrl \in LocalAliases
          /\ urlArgs.baseUrl \notin LocalAliases =>
                SchemeOf(urlOut.split.url) = Https
    /\ BuiltFromEnv =>
          /\ WellComposed(urlOut.fromEnv.url)
          /\ SchemeOf(urlOut.fromEnv.url) = Http =>
                urlArgs.baseUrl \in LocalAliases
          /\ urlArgs.baseUrl \notin LocalAliases =>
                SchemeOf(urlOut.fromEnv.url) = Https
    /\ (BuiltSplit /\ BuiltFromEnv) =>
          SchemeOf(urlOut.split.url) = SchemeOf(urlOut.fromEnv.url)

\* C19, amended: a composed URL is scheme://host[:port]path with :port
\* exactly when the port is not empty; buildUrl gives http to the host
\* localhost alone and https to every other host, buildUrlFromEnv gives http
\* to localhost and to host.docker.internal and https to every other host;
\* the two composers give the same scheme to every host but
\* host.docker.internal.
C19_SchemeByComposer ==
    /\ BuiltSplit =>
          /\ WellComposed(urlOut.split.url)
          /\ SchemeOf(urlOut.split.url) =
                IF urlArgs.baseUrl = <<"l", "o", "c", "a", "l", "h", "o", "s",
                                       "t">>
                THEN Http ELSE Https
    /\ BuiltFromEnv =>
          /\ WellComposed(urlOut.fromEnv.url)
          /\ SchemeOf(urlOut.fromEnv.url) =
                IF urlArgs.baseUrl \in LocalAliases THEN Http ELSE Https
    /\ (BuiltSplit /\ BuiltFromEnv) =>
          (SchemeOf(urlOut.split.url) = SchemeOf(urlOut.fromEnv.url)
              <=> urlArgs.baseUrl # <<"h", "o", "s", "t", ".", "d", "o", "c",
                                      "k", "e", "r", ".", "i", "n", "t", "e",
                                      "r", "n", "a", "l">>)

C19_Witness ==
    /\ BuiltSplit
    /\ BuiltFromEnv
    /\ urlArgs.baseUrl = <<"h", "o", "s", "t", ".", "d", "o", "c", "k", "e",
                           "r", ".", "i", "n", "t", "e", "r", "n", "a", "l">>
    /\ urlArgs.port = <<"8", "0", "8", "0">>
    /\ SchemeOf(urlOut.split.url) = Https
    /\ SchemeOf(urlOut.fromEnv.url) = Http

(***************************************************************************)
(* Properties of the remote-experiment form.                               *)
(***************************************************************************)
\* The full URL the split fields compose.
Composed(split) == buildUrl(split.baseUrl, split.port, split.endpoint)

\* The switch was turned to the full URL, arriving from split fields that
\* composed the full URL now shown, and is being turned back.
BackToSplit ==
    /\ formVariant = "split"
    /\ mode = "single" /\ mode' = "split"
    /\ formSplit.baseUrl # <<>> /\ formSplit.endpoint # <<>>
    /\ formSingle.url = Composed(formSplit)

\* The switch was turned to split fields, arriving from a full URL the
\* fields now shown were derived from, and is being turned back.
BackToSingle ==
    /\ formVariant = "split"
    /\ mode = "split" /\ mode' = "single"
    /\ formSingle.url # <<>>
    /\ formSplit = SyncSplitAndSingle(TRUE, formSplit, formSingle,
                                      endpointsQuery).split

\* C18: in the split/single form, turning the switch away and back with no
\* field edited gives the original full URL again: split fields composing U
\* compose U again after a visit to the full URL (an empty port included),
\* and a full URL U is U again after a visit to the split fields.
C18_ToggleRoundTrip ==
    [][/\ BackToSplit => Composed(formSplit') = Composed(formSplit)
       /\ BackToSingle => formSingle'.url = formSingle.url]_vars

\* The payload is empty or white space alone.
Blank(text) == \A i \in DOMAIN text : text[i] \in {" ", "\n", "\t", "\r"}

ValidJson(text) == JsonParse(text).ok

\* An upsert is issued on this step.
UpsertIssued == upsert' # upsert /\ upsert'.status = "pending"

\* What every submission has in common: no upsert is under way, and the
\* fields, the mode and the queries stay as they are.
HandlerRan ==
    /\ Editable(upsert)
    /\ edits' = edits
    /\ mode' = mode
    /\ endpointsQuery' = endpointsQuery
    /\ envConfigQuery' = envConfigQuery

\* The payload is neither blank nor JSON.
Malformed(payload) == ~Blank(payload) /\ ~ValidJson(payload)

\* The handler stops with the inline error of the named form, and no more.
StoppedInline(form) ==
    /\ upsert' = upsert
    /\ fieldErrors'[form] = {InvalidJson}
    /\ toasts' = toasts

\* C20 as stated: an upsert is issued only with a default payload that is
\* valid JSON.
C20_Original ==
    upsert.status = "pending" => ValidJson(upsert.defaultPayload)

\* C20: in every submit handler of the form (split, single URL and path
\* only) an upsert is issued only with a default payload that is blank or
\* valid JSON; a payload that is neither sets the inline error
\* 'Invalid JSON format' on the payload field, and no upsert is issued.
C20_MalformedPayloadBlocksUpsert ==
    [][/\ UpsertIssued =>
            \/ Blank(upsert'.defaultPayload)
            \/ ValidJson(upsert'.defaultPayload)
       /\ (/\ HandlerRan
           /\ SubmitSplit
           /\ SplitSchemaErrors(formSplit) = {}
           /\ Malformed(formSplit.defaultPayload)) => StoppedInline("split")
       /\ (/\ HandlerRan
           /\ SubmitSingle
           /\ SingleSchemaErrors(formSingle) = {}
           /\ Malformed(formSingle.defaultPayload)) => StoppedInline("single")
       /\ (/\ HandlerRan
           /\ SubmitEndpointOnly
           /\ EndpointOnlySchemaErrors(formEndpointOnly) = {}
           /\ Malformed(formEndpointOnly.defaultPayload))
                => StoppedInline("endpointOnly")]_vars

\* A malformed payload was submitted in the split form and stopped inline.
C20_Witness ==
    /\ formVariant = "split"
    /\ fieldErrors.split = {InvalidJson}
    /\ Malformed(formSplit.defaultPayload)
    /\ upsert = Idle

ConfigurationError ==
    <<"Configuration error", "Remote experiment base URL not configured">>

\* This step is a submission of the path-only form while the base URL of
\* the environment is missing.
SubmitWithoutBaseUrl ==
    /\ HandlerRan
    /\ SubmitEndpointOnly
    /\ IsFalsy(envConfigQuery.baseUrl)

\* C21 as stated: every submission of the path-only form while the base URL
\* of the environment is missing shows the configuration error and issues no
\* upsert.
C21_Original ==
    [][SubmitWithoutBaseUrl =>
            /\ ConfigurationError \in toasts'
            /\ upsert' = upsert]_vars

\* C21: a submission of the path-only form while the base URL of the
\* environment is missing issues no upsert; when the form passes its schema
\* and its payload check it shows the configuration error and sets no inline
\* error, and when the payload is malformed it stops at the inline error and
\* shows no toast.
C21_MissingBaseUrlEndsSubmission ==
    [][SubmitWithoutBaseUrl =>
            /\ upsert' = upsert
            /\ IF Malformed(formEndpointOnly.defaultPayload)
               THEN StoppedInline("endpointOnly")
               ELSE /\ toasts' = toasts \cup {ConfigurationError}
                    /\ fieldErrors'.endpointOnly = {}]_vars

\* The path-only form was submitted with an acceptable payload while the
\* base URL was missing: the configuration error is shown, no upsert was
\* ever issued.
C21_Witness ==
    /\ formVariant = "endpoint-only"
    /\ mode = "endpoint-only"
    /\ HasEnvConfig(envConfigQuery)
    /\ IsFalsy(envConfigQuery.baseUrl)
    /\ ~Malformed(formEndpointOnly.defaultPayload)
    /\ ConfigurationError \in toasts
    /\ upsert = Idle

\* The paths the endpoint select offers.
AllowedEndpoints ==
    {AvailableEndpoints(endpointsQuery)[i] :
        i \in DOMAIN AvailableEndpoints(endpointsQuery)}

\* Host and port as the environment configuration gives them.
EnvAuthority ==
    IF IsFalsy(envConfigQuery.port)
    THEN envConfigQuery.baseUrl.s
    ELSE envConfigQuery.baseUrl.s \o <<":">>
            \o NumberToString(envConfigQuery.port)

\* C22: in path-only mode every URL passed to the upsert has the host and
\* the port of the environment configuration and a path that is one of the
\* allowed endpoints (the configured list, or the defaults when there is
\* none), a form opened on a saved URL included.
C22_EnvHostAndAllowedPath ==
    [][(HandlerRan /\ SubmitEndpointOnly /\ UpsertIssued) =>
            /\ SchemeOf(upsert'.url) \in {Http, Https}
            /\ \E path \in AllowedEndpoints :
                    AfterScheme(upsert'.url) = EnvAuthority \o path]_vars

\* The environment configuration has not answered yet; the mode select is
\* not rendered, so the user has chosen no mode.
AwaitingEnvConfig ==
    formVariant = "endpoint-only" /\ envConfigQuery = Undefined

\* The form on screen is the path-only one.
EndpointOnlyShown(m, config) == m = "endpoint-only" /\ HasEnvConfig(config)

\* C23: the form of the path-only variant is in endpoint-only mode whenever
\* an environment configuration with a base URL exists and the user has
\* chosen no other mode, and in single-URL mode otherwise, also when the
\* configuration answers after the first render.
C23_ModeFollowsEnvConfig ==
    [][AwaitingEnvConfig =>
            /\ mode = "single"
            /\ mode' = IF HasEnvConfig(envConfigQuery')
                       THEN "endpoint-only" ELSE "single"
            /\ EndpointOnlyShown(mode', envConfigQuery')
                    = HasEnvConfig(envConfigQuery')]_vars

\* The split form is as it was opened, on a saved URL, and this step submits
\* it: an upsert is issued.
SubmitAsOpened ==
    /\ HandlerRan
    /\ edits = 0
    /\ formVariant = "split"
    /\ formSingle.url # <<>>
    /\ SplitFormInit
    /\ SubmitSplit
    /\ UpsertIssued

\* C26: the split form opened on a saved URL and submitted with no field
\* edited passes that URL to the upsert: scheme, host, port or absence of
\* port, and path unchanged.
C26_UneditedSubmitKeepsUrl ==
    [][SubmitAsOpened => upsert'.url = formSingle.url]_vars

====
